---------------------------- MODULE Spec2Model ----------------------------
(* A TLA+ model of the Internet of Chuffs server (u-blox/ioc-server):      *)
(* URTP ingest over UDP and TCP (audio-in), the URTP codec (PCM, UNICAM),  *)
(* the TCP reassembly state machine and the datagram processor            *)
(* (audio-process).                                                        *)
(*                                                                         *)
(* Conventions.                                                            *)
(*  - A byte is a number in 0..255; a []byte / bytes.Buffer is a sequence  *)
(*    of bytes.  Sequences are 1-based here, Go slices 0-based.            *)
(*  - An int16 / uint16 is held as its 16-bit pattern, a number in         *)
(*    0..65535, so every arithmetic step is followed by % 65536.           *)
(*  - A Go run-time panic (nil dereference, index out of range) ends the   *)
(*    whole program; it is recorded in the variable panicked, and no       *)
(*    action is enabled afterwards.                                        *)
EXTENDS Integers, Sequences, FiniteSets, TLC

--------------------------------------------------------------------------
(* Program constants (src/unnamed/part_000, src/unnamed/part_006)          *)

BLOCK_DURATION_MS == 20
SAMPLING_FREQUENCY == 16000
SAMPLES_PER_BLOCK == (SAMPLING_FREQUENCY * BLOCK_DURATION_MS) \div 1000
UNICAM_SAMPLES_PER_BLOCK == SAMPLING_FREQUENCY \div 1000
UNICAM_CODED_SAMPLE_SIZE_BITS == 8
UNICAM_CODED_SHIFT_SIZE_BITS == 4
SYNC_BYTE == 90
URTP_TIMESTAMP_SIZE == 8
URTP_SEQUENCE_NUMBER_SIZE == 2
URTP_PAYLOAD_SIZE_SIZE == 2
URTP_HEADER_SIZE == 14
URTP_SAMPLE_SIZE == 2
URTP_DATAGRAM_MAX_SIZE == URTP_HEADER_SIZE + (SAMPLES_PER_BLOCK * URTP_SAMPLE_SIZE)
URTP_NUM_BYTES_AUDIO_OFFSET == 12
PCM_SIGNED_16_BIT_16000_HZ == 0
UNICAM_COMPRESSED_16000_HZ == 1
MAX_NUM_AUDIO_CODING_SCHEMES == 2
NUM_PROCESSED_DATAGRAMS == 1
MAX_GAP_FILL_MILLISECONDS == 500

(* make(chan interface{}): the channel to the processor has no buffer *)
CHANNEL_CAPACITY == 0

(* time.Duration values are kept in microseconds *)
MAX_MP3_FILE_DURATION == 15000000

(* src/audio-out.go; ages and the clock are kept in seconds *)
MP3_MAX_AGE == 60
STREAM_TICK_SECONDS == 5

(* The ages of the segment lifecycle as the specification names them *)
USABLE_AGE == 120
REMOVABLE_AGE == 300

(* URTP reassembly states *)
URTP_STATE_WAITING_SYNC == 0
URTP_STATE_WAITING_AUDIO_CODING == 1
URTP_STATE_WAITING_SEQUENCE_NUMBER == 2
URTP_STATE_WAITING_TIMESTAMP == 3
URTP_STATE_WAITING_PAYLOAD_SIZE == 4
URTP_STATE_WAITING_PAYLOAD == 5

(* Width of a uint16 / int16 *)
Two16 == 65536

--------------------------------------------------------------------------
(* Small helpers                                                           *)

Min(a, b) == IF a < b THEN a ELSE b

RECURSIVE Pow2(_)
Pow2(n) == IF n = 0 THEN 1 ELSE 2 * Pow2(n - 1)

(* n copies of the byte sequence unit, concatenated *)
Repeat(unit, n) ==
    [i \in 1..(n * Len(unit)) |-> unit[((i - 1) % Len(unit)) + 1]]

(* The rest of a sequence after its first n elements (bytes.Buffer.Next) *)
Drop(s, n) == SubSeq(s, n + 1, Len(s))

--------------------------------------------------------------------------
(* URTP codec                                                              *)

(* decodePcm: big-endian pairs, (int16(b[x]) << 8) + int16(b[x+1]);        *)
(* the result has len/2 samples, a trailing odd byte is not read.          *)
decodePcm(audioDataPcm) ==
    [y \in 1..(Len(audioDataPcm) \div URTP_SAMPLE_SIZE) |->
        (audioDataPcm[2 * y - 1] * 256 + audioDataPcm[2 * y]) % Two16]

(* The block-counting loop of decodeUnicam:                                *)
(*   for x := 0; x < len*8; x += 16*8 + 4 { numBlocks++ }                  *)
RECURSIVE unicamCountBlocks(_, _)
unicamCountBlocks(x, numBits) ==
    IF x < numBits
    THEN 1 + unicamCountBlocks(
             x + UNICAM_SAMPLES_PER_BLOCK * UNICAM_CODED_SAMPLE_SIZE_BITS
               + UNICAM_CODED_SHIFT_SIZE_BITS, numBits)
    ELSE 0

unicamNumBlocks(audioDataUnicam) ==
    unicamCountBlocks(0, Len(audioDataUnicam) * 8)

(* unicamSample without the sign extension of the coded byte *)
unicamSampleNoSign(coded, shift) == (coded * Pow2(shift)) % Two16

(* One coded sample: int16(byte), sign-extended from bit 7, then << shift  *)
(* in 16 bits.                                                             *)
unicamSample(coded, shift) ==
    LET sample == IF coded >= Pow2(UNICAM_CODED_SAMPLE_SIZE_BITS - 1)
                  THEN coded + (Two16 - Pow2(UNICAM_CODED_SAMPLE_SIZE_BITS))
                  ELSE coded
    IN  (sample * Pow2(shift)) % Two16

(* The decode loop of decodeUnicam, one block per step.  sourceIndex is    *)
(* the 0-based read position; a read at or beyond len(audioDataUnicam) is  *)
(* Go's index-out-of-range panic.                                          *)
RECURSIVE unicamDecodeBlocks(_, _, _, _, _, _)
unicamDecodeBlocks(audioDataUnicam, numBlocks, blockCount, sourceIndex, shiftValues, audio) ==
    IF blockCount >= numBlocks
    THEN [panic |-> FALSE, audio |-> audio]
    ELSE
      IF sourceIndex + UNICAM_SAMPLES_PER_BLOCK > Len(audioDataUnicam)
      THEN [panic |-> TRUE, audio |-> <<>>]
      ELSE
        LET even == (blockCount % 2 = 0)
            afterSamples == sourceIndex + UNICAM_SAMPLES_PER_BLOCK
        IN  IF even /\ afterSamples >= Len(audioDataUnicam)
            THEN [panic |-> TRUE, audio |-> <<>>]
            ELSE
              LET newShiftValues ==
                      IF even THEN audioDataUnicam[afterSamples + 1]
                      ELSE shiftValues
                  shift == IF even THEN newShiftValues \div 16
                           ELSE newShiftValues % 16
                  block == [x \in 1..UNICAM_SAMPLES_PER_BLOCK |->
                              unicamSample(audioDataUnicam[sourceIndex + x],
                                           shift)]
              IN  unicamDecodeBlocks(audioDataUnicam, numBlocks,
                      blockCount + 1,
                      IF even THEN afterSamples + 1 ELSE afterSamples,
                      newShiftValues, audio \o block)

(* decodeUnicam: [panic, audio] *)
decodeUnicam(audioDataUnicam) ==
    unicamDecodeBlocks(audioDataUnicam, unicamNumBlocks(audioDataUnicam),
                       0, 0, 0, <<>>)

(* verifyUrtpHeader *)
verifyUrtpHeader(header) ==
    /\ Len(header) >= URTP_HEADER_SIZE
    /\ header[1] = SYNC_BYTE
    /\ header[2] < MAX_NUM_AUDIO_CODING_SCHEMES
    /\ header[URTP_NUM_BYTES_AUDIO_OFFSET + 1] * 256
         + header[URTP_NUM_BYTES_AUDIO_OFFSET + 2] <= URTP_DATAGRAM_MAX_SIZE

(* The audio that handleUrtpDatagram decodes from a packet of at least     *)
(* URTP_HEADER_SIZE bytes: [panic, nil, audio].  Audio stays a nil pointer *)
(* when the packet is exactly a header or the coding scheme is unknown.    *)
urtpDecodeAudio(packet) ==
    LET payload == Drop(packet, URTP_HEADER_SIZE)
        audioCodingScheme == packet[2]
        unicam == decodeUnicam(payload)
    IN  IF Len(packet) > URTP_HEADER_SIZE
        THEN CASE audioCodingScheme = PCM_SIGNED_16_BIT_16000_HZ ->
                    [panic |-> FALSE, nil |-> FALSE,
                     audio |-> decodePcm(payload)]
               [] audioCodingScheme = UNICAM_COMPRESSED_16000_HZ ->
                    [panic |-> unicam.panic, nil |-> FALSE,
                     audio |-> unicam.audio]
               [] OTHER -> [panic |-> FALSE, nil |-> TRUE, audio |-> <<>>]
        ELSE [panic |-> FALSE, nil |-> TRUE, audio |-> <<>>]

(* The UrtpDatagram built from a packet and its decoded audio.  The 64-bit *)
(* Timestamp is kept as its eight big-endian bytes.                        *)
newUrtpDatagram(packet, decoded) ==
    [SequenceNumber |-> (packet[3] * 256 + packet[4]) % Two16,
     Timestamp      |-> SubSeq(packet, 5, 4 + URTP_TIMESTAMP_SIZE),
     AudioNil       |-> decoded.nil,
     Audio          |-> decoded.audio]

(* handleUrtpDatagram(packet) applied to the list the channel receiver     *)
(* appends to: [panic, list].  A packet shorter than a header is dropped.  *)
(* The send on ProcessDatagramsChannel and the receiver's PushBack onto    *)
(* newDatagramList are taken as one step.                                  *)
handleUrtpDatagram(packet, list) ==
    IF Len(packet) >= URTP_HEADER_SIZE
    THEN LET decoded == urtpDecodeAudio(packet)
         IN  IF decoded.panic
             THEN [panic |-> TRUE, list |-> list]
             ELSE [panic |-> FALSE,
                   list |-> Append(list, newUrtpDatagram(packet, decoded))]
    ELSE [panic |-> FALSE, list |-> list]

--------------------------------------------------------------------------
(* TCP reassembly (handleUrtpStream)                                       *)

(* A rejection that leaves the rejected byte in tcpBuffer *)
rejectCodingRescan(st) ==
    [st EXCEPT !.header = <<>>, !.state = URTP_STATE_WAITING_SYNC]

(* handleUrtpStream, case URTP_STATE_WAITING_AUDIO_CODING with a byte that *)
(* is no coding scheme: the byte has been read from tcpBuffer, the header  *)
(* is reset and the state is WAITING_SYNC.                                 *)
rejectCoding(st) ==
    [st EXCEPT !.tcpBuffer = Tail(st.tcpBuffer), !.header = <<>>,
               !.state = URTP_STATE_WAITING_SYNC]

(* One iteration of the byte loop of handleUrtpStream.  st holds the       *)
(* package-level buffers and counters (tcpBuffer, urtpDatagram, state,     *)
(* byteCount, payloadSize), the function-local header buffer, the list     *)
(* handleUrtpDatagram posts to, and the packets handed to                  *)
(* handleUrtpDatagram so far (emitted).                                    *)
streamStep(st) ==
    LET item == Head(st.tcpBuffer)
        rest == Tail(st.tcpBuffer)
        s0   == [st EXCEPT !.tcpBuffer = rest]
    IN
    CASE st.state = URTP_STATE_WAITING_SYNC ->
           IF item = SYNC_BYTE
           THEN [s0 EXCEPT !.header = Append(st.header, item),
                           !.state = URTP_STATE_WAITING_AUDIO_CODING]
           ELSE [s0 EXCEPT !.header = <<>>,
                           !.state = URTP_STATE_WAITING_SYNC]
      [] st.state = URTP_STATE_WAITING_AUDIO_CODING ->
           IF item < MAX_NUM_AUDIO_CODING_SCHEMES
           THEN [s0 EXCEPT !.header = Append(st.header, item),
                           !.state = URTP_STATE_WAITING_SEQUENCE_NUMBER]
           ELSE rejectCoding(st)
      [] st.state = URTP_STATE_WAITING_SEQUENCE_NUMBER ->
           IF st.byteCount + 1 >= URTP_SEQUENCE_NUMBER_SIZE
           THEN [s0 EXCEPT !.header = Append(st.header, item),
                           !.byteCount = 0,
                           !.state = URTP_STATE_WAITING_TIMESTAMP]
           ELSE [s0 EXCEPT !.header = Append(st.header, item),
                           !.byteCount = st.byteCount + 1]
      [] st.state = URTP_STATE_WAITING_TIMESTAMP ->
           IF st.byteCount + 1 >= URTP_TIMESTAMP_SIZE
           THEN [s0 EXCEPT !.header = Append(st.header, item),
                           !.byteCount = 0,
                           !.state = URTP_STATE_WAITING_PAYLOAD_SIZE]
           ELSE [s0 EXCEPT !.header = Append(st.header, item),
                           !.byteCount = st.byteCount + 1]
      [] st.state = URTP_STATE_WAITING_PAYLOAD_SIZE ->
           LET hdr  == Append(st.header, item)
               size == st.payloadSize
                       + item * Pow2(8 * (URTP_PAYLOAD_SIZE_SIZE
                                          - st.byteCount - 1))
           IN  IF st.byteCount + 1 >= URTP_PAYLOAD_SIZE_SIZE
               THEN IF size <= URTP_DATAGRAM_MAX_SIZE
                    THEN IF size = 0
                         THEN [s0 EXCEPT !.header = <<>>,
                                         !.payloadSize = size,
                                         !.byteCount = 0,
                                         !.urtpDatagram = st.urtpDatagram \o hdr,
                                         !.state = URTP_STATE_WAITING_SYNC]
                         ELSE [s0 EXCEPT !.header = hdr,
                                         !.payloadSize = size,
                                         !.byteCount = 0,
                                         !.urtpDatagram = st.urtpDatagram \o hdr,
                                         !.state = URTP_STATE_WAITING_PAYLOAD]
                    ELSE [s0 EXCEPT !.header = <<>>,
                                    !.payloadSize = 0,
                                    !.byteCount = 0,
                                    !.state = URTP_STATE_WAITING_SYNC]
               ELSE [s0 EXCEPT !.header = hdr,
                               !.payloadSize = size,
                               !.byteCount = st.byteCount + 1]
      [] st.state = URTP_STATE_WAITING_PAYLOAD ->
           LET size1 == IF st.payloadSize > 0 THEN st.payloadSize - 1
                        ELSE st.payloadSize
               bytesToRead == Min(Len(rest), size1)
               dgram == Append(st.urtpDatagram, item)
                        \o SubSeq(rest, 1, bytesToRead)
               size2 == size1 - bytesToRead
               posted == handleUrtpDatagram(dgram, st.list)
           IN  IF size2 = 0
               THEN [s0 EXCEPT !.tcpBuffer = Drop(rest, bytesToRead),
                               !.payloadSize = size2,
                               !.urtpDatagram = <<>>,
                               !.emitted = Append(st.emitted, dgram),
                               !.list = posted.list,
                               !.panic = posted.panic,
                               !.header = <<>>,
                               !.state = URTP_STATE_WAITING_SYNC]
               ELSE [s0 EXCEPT !.tcpBuffer = Drop(rest, bytesToRead),
                               !.payloadSize = size2,
                               !.urtpDatagram = dgram]
      [] OTHER ->
           [s0 EXCEPT !.byteCount = 0, !.payloadSize = 0, !.header = <<>>,
                      !.state = URTP_STATE_WAITING_SYNC]

(* The loop: until tcpBuffer.ReadByte() fails (the buffer is empty), or a  *)
(* panic inside handleUrtpDatagram ends the program.                       *)
RECURSIVE streamLoop(_)
streamLoop(st) ==
    IF st.panic \/ st.tcpBuffer = <<>> THEN st ELSE streamLoop(streamStep(st))

(* handleUrtpStream(data) from the package-level state g: the data is      *)
(* written to tcpBuffer, header starts as a new empty buffer on each call. *)
handleUrtpStream(data, g) ==
    streamLoop([g EXCEPT !.tcpBuffer = g.tcpBuffer \o data,
                         !.header = <<>>])

--------------------------------------------------------------------------
(* Datagram processor (handleGap, processDatagram)                         *)

(* A sample as the bytes written to pcmAudio: byte(y >> (z * 8)), z = 0, 1 *)
sampleBytes(y) == <<y % 256, (y \div 256) % 256>>

(* All samples of an audio slice, little-endian *)
audioBytes(audio) ==
    [i \in 1..(Len(audio) * URTP_SAMPLE_SIZE) |->
        sampleBytes(audio[(i + 1) \div 2])[((i - 1) % 2) + 1]]

(* handleGap(gap, previousDatagram): saved is the list the previous        *)
(* datagram was taken from (empty: previousDatagram is nil).  The result   *)
(* is [panic, fill]: the bytes written to pcmAudio.  Dereferencing the     *)
(* Audio pointer of a previous datagram that has none panics.              *)
handleGap(gap, saved) ==
    IF gap < (SAMPLING_FREQUENCY * MAX_GAP_FILL_MILLISECONDS) \div 1000
    THEN IF saved # <<>>
         THEN IF saved[1].AudioNil
              THEN [panic |-> TRUE, fill |-> <<>>]
              ELSE IF Len(saved[1].Audio) > 0
                   THEN [panic |-> FALSE,
                         fill |-> Repeat(sampleBytes(
                                    saved[1].Audio[Len(saved[1].Audio)]), gap)]
                   ELSE [panic |-> FALSE,
                         fill |-> Repeat(<<0, 0>>, gap)]
         ELSE [panic |-> FALSE, fill |-> Repeat(<<0, 0>>, gap)]
    ELSE [panic |-> FALSE, fill |-> <<>>]

(* seqMissed with the successor taken in unbounded integers, not uint16    *)
seqMissedNoWrap(datagram, saved) ==
    /\ saved # <<>>
    /\ datagram.SequenceNumber # saved[1].SequenceNumber + 1

(* The test for missed datagrams in processDatagram: uint16 arithmetic     *)
seqMissed(datagram, saved) ==
    /\ saved # <<>>
    /\ datagram.SequenceNumber # (saved[1].SequenceNumber + 1) % Two16

(* The gap handed to handleGap for missed datagrams *)
seqGap(datagram, saved) ==
    (((datagram.SequenceNumber - saved[1].SequenceNumber) + Two16) % Two16)
      * SAMPLES_PER_BLOCK

(* A call of handleGap as processDatagram makes it, and no call *)
gapCall(gap, saved) ==
    [called |-> TRUE, n |-> gap, panic |-> handleGap(gap, saved).panic,
     fill |-> handleGap(gap, saved).fill]

noGapCall == [called |-> FALSE, n |-> 0, panic |-> FALSE, fill |-> <<>>]

(* processDatagram(datagram, savedDatagramList): what it writes to         *)
(* pcmAudio in its three steps: gap1, the call of handleGap for missed     *)
(* datagrams; own, the datagram's own samples; gap2, the call of handleGap *)
(* for a short or absent block.  A panic in a step leaves the later steps  *)
(* undone.                                                                 *)
processDatagram(datagram, saved) ==
    LET g1 == IF seqMissed(datagram, saved)
              THEN gapCall(seqGap(datagram, saved), saved)
              ELSE noGapCall
        own == IF datagram.AudioNil THEN <<>> ELSE audioBytes(datagram.Audio)
        g2 == IF datagram.AudioNil
              THEN gapCall(SAMPLES_PER_BLOCK, saved)
              ELSE IF Len(datagram.Audio) < SAMPLES_PER_BLOCK
                   THEN gapCall(SAMPLES_PER_BLOCK - Len(datagram.Audio),
                                saved)
                   ELSE noGapCall
    IN  IF g1.panic
        THEN [panic |-> TRUE, gap1 |-> g1, own |-> <<>>, gap2 |-> noGapCall]
        ELSE [panic |-> g2.panic, gap1 |-> g1, own |-> own, gap2 |-> g2]

(* The bytes one processDatagram call leaves appended to pcmAudio *)
written(r) == r.gap1.fill \o r.own \o r.gap2.fill

(* A list with the datagram put at its front, not at its back *)
pushFrontInstead(list, datagram) == <<datagram>> \o list

(* The channel receiver: newDatagramList.PushBack(datagram) *)
pushBack(list, datagram) == Append(list, datagram)

(* The tick goroutine: newDatagramList.Remove(newElement) *)
removeElement(list, datagram) == SelectSeq(list, LAMBDA x : x # datagram)

(* A processed list from which nothing is removed *)
keepAll(l) == l

(* The trimming loop over processedDatagramList: the element that makes    *)
(* count exceed NUM_PROCESSED_DATAGRAMS is removed, and Next() of a        *)
(* removed element is nil, which ends the loop.                            *)
trimProcessed(l) ==
    IF Len(l) > NUM_PROCESSED_DATAGRAMS
    THEN SubSeq(l, 1, NUM_PROCESSED_DATAGRAMS)
         \o Drop(l, NUM_PROCESSED_DATAGRAMS + 1)
    ELSE l

--------------------------------------------------------------------------
(* Segment writer (the tick goroutine after the datagram lists)            *)

(* encodeOutput: the duration one Read of x bytes adds, in microseconds:   *)
(*   x / URTP_SAMPLE_SIZE * 1000000 / SAMPLING_FREQUENCY  (integers)       *)
encodeChunkDuration(x) ==
    ((x \div URTP_SAMPLE_SIZE) * 1000000) \div SAMPLING_FREQUENCY

(* encodeOutput on a pcmAudio of n bytes: Reads of at most len(buffer) =   *)
(* 1000 bytes until the buffer is empty; the sum of their durations.       *)
RECURSIVE encodeOutput(_)
encodeOutput(n) ==
    IF n = 0
    THEN 0
    ELSE encodeChunkDuration(Min(n, 1000)) + encodeOutput(n - Min(n, 1000))

(* The duration of the encoder's padding samples, in microseconds *)
paddingDuration(padding) == (padding * 1000000) \div SAMPLING_FREQUENCY

(* The rotation test with > for >= *)
rotationDueLate(duration) == duration > MAX_MP3_FILE_DURATION

(* if mp3Duration >= MAX_MP3_FILE_DURATION *)
rotationDue(duration) == duration >= MAX_MP3_FILE_DURATION

(* The duration after mp3Writer.Close(): reduced by the padding when the   *)
(* tag was written, there is a writer and the padding is shorter.          *)
closedDuration(duration, tagWritten, writerOk, padding) ==
    IF tagWritten /\ writerOk /\ paddingDuration(padding) < duration
    THEN duration - paddingDuration(padding)
    ELSE duration

(* MP3 data is kept as the set of its kinds: the data encoded for segment  *)
(* seg, and the data the encoder gives out when it is flushed at the end   *)
(* of segment seg.                                                         *)
encodedData(seg) == [seg |-> seg, flush |-> FALSE]
flushData(seg) == [seg |-> seg, flush |-> TRUE]

(* encodeOutput: mp3Writer.Write puts what it encodes for segment seg into *)
(* the buffer the writer was created on                                    *)
bufferEncoded(buffer, pcmLen, writerOk, seg) ==
    IF pcmLen > 0 /\ writerOk THEN buffer \cup {encodedData(seg)} ELSE buffer

(* What mp3Audio.WriteTo(mp3Handle) puts into the file of the segment: the *)
(* buffer as it is at the call, after a tag that was written               *)
fileWritten(buffer, tagWritten, writeOk) ==
    IF tagWritten /\ writeOk THEN buffer ELSE {}

(* mp3Audio after the rotation: emptied by a WriteTo that succeeded, then  *)
(* mp3Writer.Close() writes what the flush of the encoder gives out        *)
bufferRotated(buffer, tagWritten, writeOk, writerOk, seg) ==
    (IF tagWritten /\ writeOk THEN {} ELSE buffer)
      \cup (IF tagWritten /\ writerOk THEN {flushData(seg)} ELSE {})

(* The segment files open after a rotation: mp3Handle.Close() is reached   *)
(* when there is a file and its tag was written, then openMp3File opens    *)
(* the next file                                                           *)
handlesAfterRotation(handles, handleOk, tagOk, openOk) ==
    handles - (IF handleOk /\ tagOk THEN 1 ELSE 0) + (IF openOk THEN 1 ELSE 0)

(* mp3Offset advanced by the duration as encoded, before the padding is    *)
(* taken off                                                               *)
nextOffsetUncorrected(offset, encoded, corrected) == offset + encoded

(* mp3Offset += mp3Duration, after the rotation block *)
nextOffset(offset, encoded, corrected) == offset + corrected

--------------------------------------------------------------------------
(* Publisher: the index file                                               *)

(* The loop of updateIndexFile over mp3FileList from element i on: the     *)
(* usable files are counted, their lines collected in segmentData and the  *)
(* longest duration kept.                                                  *)
RECURSIVE indexScanFrom(_, _, _)
indexScanFrom(list, i, acc) ==
    IF i > Len(list)
    THEN acc
    ELSE indexScanFrom(list, i + 1,
           IF list[i].usable
           THEN [numSegments |-> acc.numSegments + 1,
                 maxDuration |-> IF acc.maxDuration < list[i].duration
                                 THEN list[i].duration
                                 ELSE acc.maxDuration,
                 segmentData |-> Append(acc.segmentData,
                                   [timestamp |-> list[i].timestamp,
                                    duration |-> list[i].duration,
                                    fileName |-> list[i].fileName])]
           ELSE acc)

(* The first part of updateIndexFile, before the lock is taken *)
indexScan(list) ==
    indexScanFrom(list, 1,
                  [numSegments |-> 0, maxDuration |-> 0, segmentData |-> <<>>])

(* The index file right after os.Create: empty *)
indexTruncated ==
    [fixed |-> 0, targetDuration |-> <<>>, mediaSequence |-> <<>>,
     segments |-> <<>>]

(* The index file as updateIndexFile writes it from what it scanned: the   *)
(* two fixed lines, and with a segment the target duration                 *)
(* int(maxDuration / time.Second) + 1, the media sequence numSegments - 1  *)
(* and the segment list.                                                   *)
indexContent(scan) ==
    IF scan.numSegments > 0
    THEN [fixed |-> 2,
          targetDuration |-> <<(scan.maxDuration \div 1000000) + 1>>,
          mediaSequence |-> <<scan.numSegments - 1>>,
          segments |-> scan.segmentData]
    ELSE [fixed |-> 2, targetDuration |-> <<>>, mediaSequence |-> <<>>,
          segments |-> <<>>]

(* updateIndexFile run from start to end with nothing in between *)
updateIndexFile(list) == indexContent(indexScan(list))

(* The list without its element i *)
listRemove(list, i) == SubSeq(list, 1, i - 1) \o SubSeq(list, i + 1, Len(list))

(* The stream ticker's test of a file at time clock *)
outOfDate(file, clock) ==
    file.usable /\ clock - file.timestamp > MP3_MAX_AGE

(* out.Header() of a new response: neither field is set *)
NoHeader == [ContentType |-> "", CacheControl |-> ""]

(* The Content-Type http.ServeFile may find for the index file: that of a  *)
(* MIME table of the system which knows the extension, that of the         *)
(* content when no table does.                                             *)
ServeFileTypes == { "application/x-mpegurl", "text/plain; charset=utf-8" }

(* The header http.ServeFile sends: a Content-Type already set is kept *)
serveFileHeader(header, ctype) ==
    IF header.ContentType = "" THEN [header EXCEPT !.ContentType = ctype]
    ELSE header

(* The goroutines that call updateIndexFile *)
Writers == {"tick", "channel"}

(* indexAccess.Lock() goes on when nobody holds the mutex *)
canLockAlways(access) == TRUE
canLock(access) == access = "none"

(* The end of one round of the stream ticker's loop at element i: a file   *)
(* that is not usable is deleted and taken off the list, which ends the    *)
(* loop (index 0); otherwise the loop goes to the next element.            *)
tickAdvance(list, i, removeOk) ==
    IF ~list[i].usable /\ removeOk
    THEN [list |-> listRemove(list, i), index |-> 0]
    ELSE [list |-> list, index |-> i + 1]

(* The loop of the stream ticker over mp3FileList from element i on, at    *)
(* time clock: for a usable file older than MP3_MAX_AGE the index file is  *)
(* rewritten (the file stays usable: the assignment is commented out); a   *)
(* file that is not usable is deleted and, if that worked, taken off the   *)
(* list, and as list.Remove clears the element's links Next() then ends    *)
(* the loop.                                                               *)
(* The index files open after updateIndexFile: os.Create opens one and     *)
(* the function returns without a Close                                    *)
handlesAfterUpdate(handles) == handles + 1

(* The calls of updateIndexFile in the loop of the stream ticker from      *)
(* element i on                                                            *)
RECURSIVE housekeepUpdates(_, _, _, _)
housekeepUpdates(list, i, clock, removeOk) ==
    IF i > Len(list)
    THEN 0
    ELSE (IF outOfDate(list[i], clock) THEN 1 ELSE 0)
           + (IF ~list[i].usable /\ removeOk
              THEN 0
              ELSE housekeepUpdates(list, i + 1, clock, removeOk))

RECURSIVE handlesAfterUpdates(_, _)
handlesAfterUpdates(handles, calls) ==
    IF calls = 0 THEN handles
    ELSE handlesAfterUpdates(handlesAfterUpdate(handles), calls - 1)

RECURSIVE housekeepFrom(_, _, _, _, _)
housekeepFrom(list, i, clock, removeOk, index) ==
    IF i > Len(list)
    THEN [list |-> list, index |-> index]
    ELSE LET index1 == IF outOfDate(list[i], clock)
                       THEN updateIndexFile(list)
                       ELSE index
         IN  IF ~list[i].usable /\ removeOk
             THEN [list |-> listRemove(list, i), index |-> index1]
             ELSE housekeepFrom(list, i + 1, clock, removeOk, index1)

--------------------------------------------------------------------------
(* State                                                                   *)

VARIABLES
    wire,                   \* TCP: bytes sent by the client, not yet read
    sent,                   \* history: the byte strings the client wrote
    tcpBuffer,              \* var tcpBuffer bytes.Buffer
    urtpDatagram,           \* var urtpDatagram bytes.Buffer
    urtpReassemblyState,    \* var urtpReassemblyState int
    urtpByteCount,          \* var urtpByteCount int
    urtpPayloadSize,        \* var urtpPayloadSize int
    emitted,                \* history: packets passed to handleUrtpDatagram
    conns,                  \* TCP: the connections accepted so far (with
                            \* history: first bytes written, reads made)
    currentServer,          \* var currentServer (0: nil)
    newestHandler,          \* history: the newest connection that has run
                            \* handleUrtpStream (0: none)
    lateHandler,            \* history: an older one has run it after that
    udpRunning,             \* the read loop of udpServer has not ended
    udpCount,               \* number of UDP datagrams read so far
    udpError,               \* history: a read on the UDP socket failed
    newDatagramList,        \* var newDatagramList (front first)
    processedDatagramList,  \* var processedDatagramList (front first)
    pcmAudio,               \* var pcmAudio bytes.Buffer
    tickPc,                 \* position of the tick goroutine
    panicked,               \* a run-time panic has ended the program
    lastProc,               \* history: the last processDatagram call
    pcmTotal,               \* history: bytes written to pcmAudio so far
    fed,                    \* history: datagrams given to processDatagram
    inOrder,                \* history: each followed its predecessor by 1
    ProcessDatagramsChannel, \* the datagrams of the senders blocked in a send
    cmd,                    \* the datagram the channel receiver has taken
    newElement,             \* the element the loop of the tick goroutine holds
    listCorrupt,            \* a data race has left newDatagramList damaged
    arrived,                \* history: the datagrams received on the channel
    procLog,                \* history: the processDatagram calls, in order
    drainLeft,              \* history: pending at the tick's start, still so
    channelClosed,          \* the processor's channel has been closed
    procPc,                 \* how far operateAudioProcessing has come
    nilSends,               \* goroutines in a send on the nil channel
    codecIn,                \* the payload given to decodeUnicam on its own
    codecOut,               \* its result
    mp3Duration,            \* var mp3Duration (microseconds)
    mp3Offset,              \* var mp3Offset (microseconds)
    mp3HandleOk,            \* mp3Handle != nil
    mp3WriterOk,            \* mp3Writer != nil
    mp3Audio,               \* var mp3Audio bytes.Buffer: whose data it holds
    mp3Handles,             \* segment files opened and not closed
    indexHandles,           \* index files opened and not closed
    segmentLog,             \* history: the rotations so far
    framesFed,              \* history: ticks that encoded one full block
    onlyFull,               \* history: no tick encoded anything else
    mediaChannel,           \* MediaControlChannel: the message being sent
    now,                    \* time.Now(), in seconds
    mp3FileList,            \* var mp3FileList (front first)
    indexFile,              \* the index file on disk
    filesSent,              \* history: messages sent on the channel so far
    removeFailed,           \* history: an os.Remove would have failed
    indexAccess,            \* var indexAccess sync.Mutex: who holds it
    writerPc,               \* position of each goroutine in updateIndexFile
    writerScan,             \* its numSegments, maxDuration, segmentData
    tickIndex,              \* the element the stream ticker loop is at
    readerPc,               \* position of streamHandler for the index file
    servedPartial,          \* history: a client was served part of a file
    listAtWrite,            \* history: mp3FileList at the last rewrite
    outHeader,              \* out.Header() of the request for the index file
    wireHeader              \* the header sent with the response to it

vars == <<wire, sent, tcpBuffer, urtpDatagram, urtpReassemblyState,
          urtpByteCount, urtpPayloadSize, emitted, conns, currentServer,
          newestHandler, lateHandler, udpRunning, udpCount,
          udpError, newDatagramList, processedDatagramList, pcmAudio, tickPc, panicked,
          lastProc, pcmTotal, fed, inOrder, ProcessDatagramsChannel, cmd,
          newElement, listCorrupt, arrived, procLog, drainLeft,
          channelClosed, procPc, nilSends,
          codecIn, codecOut,
          mp3Duration, mp3Offset, mp3HandleOk, mp3WriterOk, mp3Audio,
          mp3Handles, indexHandles, segmentLog,
          framesFed, onlyFull, mediaChannel, now, mp3FileList, indexFile,
          filesSent, removeFailed, indexAccess, writerPc, writerScan,
          tickIndex, readerPc, servedPartial, listAtWrite,
          outHeader, wireHeader>>

connVars == <<conns, currentServer, newestHandler, lateHandler>>
tcpVars == <<wire, sent, tcpBuffer, urtpDatagram, urtpReassemblyState,
             urtpByteCount, urtpPayloadSize, emitted, connVars>>
udpVars == <<udpRunning, udpCount, udpError>>
chanVars == <<ProcessDatagramsChannel, cmd, newElement, listCorrupt, arrived,
              procLog, drainLeft, channelClosed, procPc, nilSends>>
procVars == <<processedDatagramList, pcmAudio, tickPc, lastProc, pcmTotal,
              fed, inOrder, chanVars>>
codecVars == <<codecIn, codecOut>>
segVars == <<mp3Duration, mp3Offset, mp3HandleOk, mp3WriterOk, mp3Audio,
             mp3Handles, segmentLog, framesFed, onlyFull>>
respVars == <<outHeader, wireHeader>>
idxVars == <<indexAccess, writerPc, writerScan, tickIndex, readerPc, respVars,
             servedPartial>>
outVars == <<mediaChannel, now, mp3FileList, indexFile, filesSent,
             removeFailed, idxVars, listAtWrite, indexHandles>>

--------------------------------------------------------------------------
(* Bounds and inputs                                                       *)

MaxTcpFrames == 2
MaxDatagrams == 3
MaxUnicamLen == 66
MaxRotations == 3
MaxFiles == 3
MaxClock == 305
SendWindow == 10
MaxIndexFiles == 2
MaxConns == 2
MaxConnSends == 1
MaxPosted == 3
MaxSenders == 2
IndexClock == 65

(* A client's URTP frame: sync, coding, sequence number, timestamp,        *)
(* payload length (all big-endian), payload.                               *)
urtpHeader(coding, seq, ts, len) ==
    <<SYNC_BYTE, coding, seq \div 256, seq % 256>> \o ts
      \o <<len \div 256, len % 256>>

urtpFrame(coding, seq, ts, payload) ==
    urtpHeader(coding, seq, ts, Len(payload)) \o payload

(* Timestamps with eight different bytes, none a sync byte *)
TsA == <<17, 18, 19, 20, 21, 22, 23, 24>>
TsB == <<33, 34, 35, 36, 37, 38, 39, 40>>

(* One block of PCM: 319 samples 0x0102, then 0xABCD *)
FullPcm == Repeat(<<1, 2>>, SAMPLES_PER_BLOCK - 1) \o <<171, 205>>

(* Two samples of PCM *)
ShortPcm == <<18, 52, 86, 120>>

(* A UNICAM payload of len bytes: coded samples all c, shift bytes all sh, *)
(* a shift byte after each even block (every 33rd byte, from the 17th).    *)
unicamPayload(len, c, sh) ==
    [i \in 1..len |-> IF i % 33 = 17 THEN sh ELSE c]

(* What a client, or anyone, may write to the TCP connection *)
TcpInputs ==
    { urtpFrame(PCM_SIGNED_16_BIT_16000_HZ, 1, TsA, ShortPcm),
      urtpFrame(PCM_SIGNED_16_BIT_16000_HZ, 2, TsB, <<154, 188>>),
      urtpFrame(PCM_SIGNED_16_BIT_16000_HZ, 3, TsB, <<>>),
      urtpHeader(MAX_NUM_AUDIO_CODING_SCHEMES, 4, TsA, 0),
      urtpHeader(PCM_SIGNED_16_BIT_16000_HZ, 5, TsB,
                 URTP_DATAGRAM_MAX_SIZE + 1),
      <<7>> }

(* The valid frames among them *)
ValidTcpFrames == { f \in TcpInputs : Len(f) >= URTP_HEADER_SIZE
                                       /\ verifyUrtpHeader(f)
                                       /\ Len(f) = URTP_HEADER_SIZE
                                                    + f[13] * 256 + f[14] }

(* What a client may write when the rejection of headers is looked at: a  *)
(* sync byte twice, a sync byte and a byte that is no coding scheme, a     *)
(* header whose length is one above the largest accepted, a header whose   *)
(* two length bytes are sync bytes, a valid frame.                         *)
HeaderInputs ==
    { <<SYNC_BYTE, SYNC_BYTE>>,
      <<SYNC_BYTE, MAX_NUM_AUDIO_CODING_SCHEMES>>,
      urtpHeader(PCM_SIGNED_16_BIT_16000_HZ, 5, TsB,
                 URTP_DATAGRAM_MAX_SIZE + 1),
      urtpHeader(PCM_SIGNED_16_BIT_16000_HZ, 6, TsA,
                 SYNC_BYTE * 256 + SYNC_BYTE),
      urtpFrame(PCM_SIGNED_16_BIT_16000_HZ, 2, TsB, <<154, 188>>) }

(* The numbers of bytes one server.Read may return there *)
HeaderReadSizes ==
    { 1, 2, URTP_HEADER_SIZE - 1, URTP_HEADER_SIZE, URTP_HEADER_SIZE + 2 }

(* UDP datagrams whose header declares the length of the payload they     *)
(* carry, less than it, and more than it                                   *)
LengthUdpInputs ==
    { urtpFrame(PCM_SIGNED_16_BIT_16000_HZ, 1, TsA, ShortPcm),
      urtpHeader(PCM_SIGNED_16_BIT_16000_HZ, 2, TsA, 2) \o ShortPcm,
      urtpHeader(PCM_SIGNED_16_BIT_16000_HZ, 3, TsB,
                 SAMPLES_PER_BLOCK * URTP_SAMPLE_SIZE) \o <<154, 188>> }

(* TCP frames: a short one, and one whose payload is one sample longer     *)
(* than a block                                                            *)
LengthTcpInputs ==
    { urtpFrame(PCM_SIGNED_16_BIT_16000_HZ, 4, TsB, <<154, 188>>),
      urtpFrame(PCM_SIGNED_16_BIT_16000_HZ, 5, TsA, FullPcm \o <<1, 2>>) }

(* The numbers of bytes one server.Read may return there *)
LengthReadSizes == { URTP_HEADER_SIZE + 2, URTP_DATAGRAM_MAX_SIZE }

(* What a client may write to one of several TCP connections *)
ConnInputs ==
    { urtpFrame(PCM_SIGNED_16_BIT_16000_HZ, 2, TsB, <<154, 188>>),
      <<SYNC_BYTE, PCM_SIGNED_16_BIT_16000_HZ>> }

(* The numbers of bytes one server.Read may return there: the two bytes of *)
(* the short input, a header, a whole frame.                               *)
ConnReadSizes == { 2, URTP_HEADER_SIZE, URTP_HEADER_SIZE + 2 }

(* The packets the ingest goroutines hand to handleUrtpDatagram when the   *)
(* channel and the two goroutines of the processor are looked at: frames   *)
(* with different sequence numbers, in any order, one with no payload.     *)
ProcInputs ==
    { urtpFrame(PCM_SIGNED_16_BIT_16000_HZ, q, TsA, ShortPcm) :
          q \in 1..MaxPosted }
    \cup { urtpFrame(PCM_SIGNED_16_BIT_16000_HZ, 0, TsB, <<>>) }

(* What a step of the tick goroutine on newDatagramList may come to while  *)
(* the channel receiver is inside PushBack on the same list (no lock is    *)
(* held by either): the two calls take effect one after the other; the     *)
(* links and the length of the list no longer agree, so that an element is *)
(* not found from the front; the root element is taken for a datagram and  *)
(* the type assertion on its nil Value panics.                             *)
RaceOutcomes == { "none", "lost", "panic" }

(* What may arrive in one UDP datagram *)
UdpInputs ==
    { urtpFrame(PCM_SIGNED_16_BIT_16000_HZ, q, TsA, FullPcm) :
          q \in {65535, 0, 1, 3, 100} }
    \cup { urtpFrame(PCM_SIGNED_16_BIT_16000_HZ, 1, TsB, <<>>),
           urtpFrame(PCM_SIGNED_16_BIT_16000_HZ, 2, TsB, ShortPcm),
           urtpFrame(UNICAM_COMPRESSED_16000_HZ, 2, TsB,
                     unicamPayload(17, 1, 32)),
           urtpFrame(UNICAM_COMPRESSED_16000_HZ, 2, TsB,
                     unicamPayload(363, 1, 33)),
           <<SYNC_BYTE + 1>> \o Tail(
               urtpFrame(PCM_SIGNED_16_BIT_16000_HZ, 2, TsB, ShortPcm)),
           SubSeq(urtpHeader(PCM_SIGNED_16_BIT_16000_HZ, 2, TsB, 0), 1,
                  URTP_HEADER_SIZE - 1),
           <<>> }

(* A UNICAM payload of len bytes that differ from place to place *)
unicamRamp(len) == [i \in 1..len |-> (i * 37 + 11) % 256]

(* Payloads for the UNICAM decoder on its own *)
UnicamPayloads ==
    { unicamPayload(len, p[1], p[2]) :
          len \in 0..MaxUnicamLen,
          p \in { <<1, 32>>, <<128, 241>>, <<255, 7>> } }
    \cup { unicamRamp(len) : len \in 0..MaxUnicamLen }

(* The bytes one tick may find in pcmAudio: none, the block of one         *)
(* datagram, or the blocks of two datagrams that arrived since the last    *)
(* tick.                                                                   *)
SegmentPcmSizes ==
    { 0,
      SAMPLES_PER_BLOCK * URTP_SAMPLE_SIZE,
      2 * SAMPLES_PER_BLOCK * URTP_SAMPLE_SIZE }

(* What the file system and the encoder may answer during one rotation:    *)
(* writeTag and mp3Audio.WriteTo succeed or fail, the padding that         *)
(* mp3Writer.Close() returns, openMp3File and createMp3Writer return a     *)
(* value or nil.                                                           *)
SegmentIo ==
    { [tagOk |-> TRUE, writeOk |-> TRUE, padding |-> 576, openOk |-> TRUE,
       writerOk |-> TRUE],
      [tagOk |-> FALSE, writeOk |-> TRUE, padding |-> 576, openOk |-> TRUE,
       writerOk |-> TRUE],
      [tagOk |-> TRUE, writeOk |-> FALSE, padding |-> 576, openOk |-> TRUE,
       writerOk |-> TRUE],
      [tagOk |-> TRUE, writeOk |-> TRUE, padding |-> 576, openOk |-> FALSE,
       writerOk |-> TRUE],
      [tagOk |-> TRUE, writeOk |-> TRUE, padding |-> 576, openOk |-> TRUE,
       writerOk |-> FALSE] }

(* The durations of the files announced to the publisher: 750 blocks      *)
(* less the padding of 576 samples, and 750 blocks as they are when there  *)
(* was no encoder to close.                                                *)
SentDurations ==
    { MAX_MP3_FILE_DURATION - paddingDuration(576), MAX_MP3_FILE_DURATION }

--------------------------------------------------------------------------
(* Initial state                                                           *)

InitIngest ==
    /\ wire = <<>>
    /\ sent = <<>>
    /\ tcpBuffer = <<>>
    /\ urtpDatagram = <<>>
    /\ urtpReassemblyState = URTP_STATE_WAITING_SYNC
    /\ urtpByteCount = 0
    /\ urtpPayloadSize = 0
    /\ emitted = <<>>
    /\ conns = <<>>
    /\ currentServer = 0
    /\ newestHandler = 0
    /\ lateHandler = FALSE
    /\ udpRunning = TRUE
    /\ udpCount = 0
    /\ udpError = FALSE

InitProcessor ==
    /\ newDatagramList = <<>>
    /\ processedDatagramList = <<>>
    /\ pcmAudio = <<>>
    /\ tickPc = "idle"
    /\ panicked = FALSE
    /\ lastProc = <<>>
    /\ pcmTotal = 0
    /\ fed = 0
    /\ inOrder = TRUE
    /\ ProcessDatagramsChannel = <<>>
    /\ cmd = <<>>
    /\ newElement = <<>>
    /\ listCorrupt = FALSE
    /\ arrived = <<>>
    /\ procLog = <<>>
    /\ drainLeft = 0
    /\ channelClosed = FALSE
    /\ procPc = "serving"
    /\ nilSends = 0

(* operateAudioProcessing exits unless it has an MP3 writer and a file *)
InitSegment ==
    /\ mp3Duration = 0
    /\ mp3Offset = 0
    /\ mp3HandleOk = TRUE
    /\ mp3WriterOk = TRUE
    /\ mp3Audio = {}
    /\ mp3Handles = 1
    /\ segmentLog = <<>>
    /\ framesFed = 0
    /\ onlyFull = TRUE

(* operateAudioOut creates an index file without segments at the start *)
InitOut ==
    /\ mediaChannel = <<>>
    /\ now = 0
    /\ mp3FileList = <<>>
    /\ indexFile = updateIndexFile(<<>>)
    /\ indexHandles = handlesAfterUpdate(0)
    /\ filesSent = 0
    /\ removeFailed = FALSE
    /\ indexAccess = "none"
    /\ writerPc = [g \in Writers |-> "idle"]
    /\ writerScan = [g \in Writers |-> indexScan(<<>>)]
    /\ tickIndex = 0
    /\ readerPc = "idle"
    /\ outHeader = NoHeader
    /\ wireHeader = <<>>
    /\ servedPartial = FALSE
    /\ listAtWrite = <<>>

Init ==
    /\ InitIngest
    /\ InitProcessor
    /\ InitSegment
    /\ InitOut
    /\ codecIn = <<>>
    /\ codecOut = <<>>

InitUnicam ==
    /\ InitIngest
    /\ InitProcessor
    /\ InitSegment
    /\ InitOut
    /\ codecIn \in UnicamPayloads
    /\ codecOut = <<>>

--------------------------------------------------------------------------
(* Actions                                                                 *)

(* The client writes bytes to the TCP connection. *)
TcpSend(f) ==
    /\ ~panicked
    /\ Len(sent) < MaxTcpFrames
    /\ wire' = wire \o f
    /\ sent' = Append(sent, f)
    /\ UNCHANGED <<tcpBuffer, urtpDatagram, urtpReassemblyState,
                   urtpByteCount, urtpPayloadSize, emitted, connVars>>
    /\ UNCHANGED <<udpVars, newDatagramList, procVars, panicked, codecVars, segVars, outVars>>

(* The connection goroutine of tcpServer: server.Read(line) returns        *)
(* numBytesIn > 0 bytes, at most len(line), and handleUrtpStream gets      *)
(* them.                                                                   *)
TcpRead(numBytesIn) ==
    /\ ~panicked
    /\ numBytesIn \in 1..Min(Len(wire), URTP_DATAGRAM_MAX_SIZE)
    /\ LET g == [tcpBuffer |-> tcpBuffer, header |-> <<>>,
                 urtpDatagram |-> urtpDatagram,
                 state |-> urtpReassemblyState, byteCount |-> urtpByteCount,
                 payloadSize |-> urtpPayloadSize, list |-> newDatagramList,
                 emitted |-> emitted, panic |-> FALSE]
           r == handleUrtpStream(SubSeq(wire, 1, numBytesIn), g)
       IN  /\ wire' = Drop(wire, numBytesIn)
           /\ tcpBuffer' = r.tcpBuffer
           /\ urtpDatagram' = r.urtpDatagram
           /\ urtpReassemblyState' = r.state
           /\ urtpByteCount' = r.byteCount
           /\ urtpPayloadSize' = r.payloadSize
           /\ emitted' = r.emitted
           /\ newDatagramList' = r.list
           /\ panicked' = r.panic
    /\ UNCHANGED <<sent, connVars, udpVars, procVars, codecVars, segVars,
                   outVars>>

(* One iteration of the read loop of udpServer on datagram d: the read     *)
(* fills at most len(line) bytes; a read of no bytes ends the loop.        *)
UdpReceive(d) ==
    /\ ~panicked
    /\ udpRunning
    /\ udpCount < MaxDatagrams
    /\ udpCount' = udpCount + 1
    /\ UNCHANGED udpError
    /\ LET line == SubSeq(d, 1, Min(Len(d), URTP_DATAGRAM_MAX_SIZE))
           numBytesIn == Len(line)
           r == handleUrtpDatagram(line, newDatagramList)
       IN  IF numBytesIn > 0
           THEN /\ udpRunning' = TRUE
                /\ IF numBytesIn >= URTP_HEADER_SIZE
                      /\ verifyUrtpHeader(SubSeq(line, 1, URTP_HEADER_SIZE))
                   THEN /\ newDatagramList' = r.list
                        /\ panicked' = r.panic
                   ELSE UNCHANGED <<newDatagramList, panicked>>
           ELSE /\ udpRunning' = FALSE
                /\ UNCHANGED <<newDatagramList, panicked>>
    /\ UNCHANGED <<tcpVars, procVars, codecVars, segVars, outVars>>

(* tcpServer: listener.Accept() returns a connection; the current one, if  *)
(* there is one, is closed, the new one becomes the current one and a      *)
(* goroutine is started that reads from it.                                *)
TcpAccept ==
    /\ ~panicked
    /\ Len(conns) < MaxConns
    /\ conns' = Append([c \in 1..Len(conns) |->
                            IF c = currentServer
                            THEN [conns[c] EXCEPT !.closed = TRUE]
                            ELSE conns[c]],
                       [closed |-> FALSE, wire |-> <<>>, sends |-> 0,
                        pc |-> "read", line |-> <<>>, first |-> <<>>,
                        reads |-> 0])
    /\ currentServer' = Len(conns) + 1
    /\ UNCHANGED <<wire, sent, tcpBuffer, urtpDatagram, urtpReassemblyState,
                   urtpByteCount, urtpPayloadSize, emitted, newestHandler,
                   lateHandler>>
    /\ UNCHANGED <<udpVars, newDatagramList, procVars, panicked, codecVars,
                   segVars, outVars>>

(* The client of connection c writes bytes to it *)
ConnSend(c, f) ==
    /\ ~panicked
    /\ c \in 1..Len(conns)
    /\ ~conns[c].closed
    /\ conns[c].sends < MaxConnSends
    /\ conns' = [conns EXCEPT ![c].wire = conns[c].wire \o f,
                              ![c].sends = conns[c].sends + 1,
                              ![c].first = IF conns[c].sends = 0 THEN f
                                           ELSE conns[c].first]
    /\ UNCHANGED <<wire, sent, tcpBuffer, urtpDatagram, urtpReassemblyState,
                   urtpByteCount, urtpPayloadSize, emitted, currentServer,
                   newestHandler, lateHandler>>
    /\ UNCHANGED <<udpVars, newDatagramList, procVars, panicked, codecVars,
                   segVars, outVars>>

(* The goroutine of connection c: server.Read(line) returns numBytesIn     *)
(* bytes without an error.                                                 *)
ConnRead(c, numBytesIn) ==
    /\ ~panicked
    /\ c \in 1..Len(conns)
    /\ conns[c].pc = "read"
    /\ ~conns[c].closed
    /\ numBytesIn \in 1..Min(Len(conns[c].wire), URTP_DATAGRAM_MAX_SIZE)
    /\ conns' = [conns EXCEPT
                    ![c].wire = Drop(conns[c].wire, numBytesIn),
                    ![c].line = SubSeq(conns[c].wire, 1, numBytesIn),
                    ![c].reads = Min(conns[c].reads + 1, 2),
                    ![c].pc = "call"]
    /\ UNCHANGED <<wire, sent, tcpBuffer, urtpDatagram, urtpReassemblyState,
                   urtpByteCount, urtpPayloadSize, emitted, currentServer,
                   newestHandler, lateHandler>>
    /\ UNCHANGED <<udpVars, newDatagramList, procVars, panicked, codecVars,
                   segVars, outVars>>

(* The goroutine of connection c: server.Read(line) returns an error (the  *)
(* connection was closed by tcpServer or by the client, or the read        *)
(* failed), the loop ends and the goroutine with it.                       *)
ConnReadError(c) ==
    /\ ~panicked
    /\ c \in 1..Len(conns)
    /\ conns[c].pc = "read"
    /\ conns' = [conns EXCEPT ![c].pc = "done"]
    /\ UNCHANGED <<wire, sent, tcpBuffer, urtpDatagram, urtpReassemblyState,
                   urtpByteCount, urtpPayloadSize, emitted, currentServer,
                   newestHandler, lateHandler>>
    /\ UNCHANGED <<udpVars, newDatagramList, procVars, panicked, codecVars,
                   segVars, outVars>>

(* The goroutine of connection c enters handleUrtpStream with the bytes it *)
(* has read.                                                               *)
ConnEnter(c) ==
    /\ ~panicked
    /\ c \in 1..Len(conns)
    /\ conns[c].pc = "call"
    /\ conns' = [conns EXCEPT ![c].pc = "in"]
    /\ newestHandler' = IF c > newestHandler THEN c ELSE newestHandler
    /\ lateHandler' = (lateHandler \/ c < newestHandler)
    /\ UNCHANGED <<wire, sent, tcpBuffer, urtpDatagram, urtpReassemblyState,
                   urtpByteCount, urtpPayloadSize, emitted, currentServer>>
    /\ UNCHANGED <<udpVars, newDatagramList, procVars, panicked, codecVars,
                   segVars, outVars>>

(* handleUrtpStream of connection c runs and returns.  When the goroutine  *)
(* of another connection is inside handleUrtpStream as well, the two work  *)
(* on the same buffers and counters without a lock: the outcome is that of *)
(* one call after the other, or a run-time panic.                          *)
ConnHandle(c, raced) ==
    /\ ~panicked
    /\ c \in 1..Len(conns)
    /\ conns[c].pc = "in"
    /\ raced => \E o \in 1..Len(conns) : o # c /\ conns[o].pc = "in"
    /\ conns' = [conns EXCEPT ![c].pc = "read", ![c].line = <<>>]
    /\ LET g == [tcpBuffer |-> tcpBuffer, header |-> <<>>,
                 urtpDatagram |-> urtpDatagram,
                 state |-> urtpReassemblyState, byteCount |-> urtpByteCount,
                 payloadSize |-> urtpPayloadSize, list |-> newDatagramList,
                 emitted |-> emitted, panic |-> FALSE]
           r == handleUrtpStream(conns[c].line, g)
       IN  /\ tcpBuffer' = r.tcpBuffer
           /\ urtpDatagram' = r.urtpDatagram
           /\ urtpReassemblyState' = r.state
           /\ urtpByteCount' = r.byteCount
           /\ urtpPayloadSize' = r.payloadSize
           /\ emitted' = r.emitted
           /\ newDatagramList' = r.list
           /\ panicked' = (r.panic \/ raced)
    /\ UNCHANGED <<wire, sent, currentServer, newestHandler, lateHandler>>
    /\ UNCHANGED <<udpVars, procVars, codecVars, segVars, outVars>>

(* The read on the UDP socket fails: the read loop of udpServer ends, the  *)
(* error is printed and udpServer returns.                                 *)
UdpReadError ==
    /\ ~panicked
    /\ udpRunning
    /\ udpRunning' = FALSE
    /\ udpError' = TRUE
    /\ UNCHANGED <<udpCount, newDatagramList, panicked>>
    /\ UNCHANGED <<tcpVars, procVars, codecVars, segVars, outVars>>

(* The tick goroutine, first part: the loop over newDatagramList, which    *)
(* processes the front element, moves it to the front of                   *)
(* processedDatagramList and removes it (Next() of the removed element is  *)
(* nil, so the loop ends there), then the trimming loop.                   *)
TickProcess ==
    /\ ~panicked
    /\ tickPc = "idle"
    /\ IF newDatagramList # <<>>
       THEN LET datagram == Head(newDatagramList)
                r == processDatagram(datagram, processedDatagramList)
            IN  /\ lastProc' = <<[datagram |-> datagram,
                                  saved |-> processedDatagramList,
                                  r |-> r]>>
                /\ pcmAudio' = pcmAudio \o written(r)
                /\ pcmTotal' = pcmTotal + Len(written(r))
                /\ fed' = fed + 1
                /\ inOrder' = (inOrder
                               /\ ~seqMissed(datagram, processedDatagramList))
                /\ panicked' = r.panic
                /\ IF r.panic
                   THEN UNCHANGED <<newDatagramList, processedDatagramList,
                                    tickPc>>
                   ELSE /\ newDatagramList' = Tail(newDatagramList)
                        /\ processedDatagramList' =
                              trimProcessed(<<datagram>>
                                            \o processedDatagramList)
                        /\ tickPc' = "encode"
       ELSE /\ tickPc' = "encode"
            /\ UNCHANGED <<newDatagramList, processedDatagramList, pcmAudio,
                           panicked, lastProc, pcmTotal, fed, inOrder>>
    /\ UNCHANGED <<tcpVars, udpVars, chanVars, codecVars, segVars, outVars>>

(* handleUrtpDatagram(packet) up to its send: the goroutine of a server    *)
(* builds the datagram and blocks in ProcessDatagramsChannel <- datagram   *)
(* until the channel receiver takes it.  Each packet is sent once.         *)
ChannelSend(packet) ==
    /\ ~panicked
    /\ ~channelClosed
    /\ procPc # "start"
    /\ Len(ProcessDatagramsChannel) < MaxSenders
    /\ LET decoded == urtpDecodeAudio(packet)
           datagram == newUrtpDatagram(packet, decoded)
       IN  /\ ~decoded.panic
           /\ \A i \in 1..Len(ProcessDatagramsChannel) :
                  ProcessDatagramsChannel[i] # datagram
           /\ \A i \in 1..Len(arrived) : arrived[i] # datagram
           /\ ProcessDatagramsChannel' =
                  Append(ProcessDatagramsChannel, datagram)
    /\ UNCHANGED <<cmd, newElement, listCorrupt, arrived, procLog, drainLeft>>
    /\ UNCHANGED <<processedDatagramList, pcmAudio, tickPc, lastProc,
                   pcmTotal, fed, inOrder, newDatagramList, panicked>>
    /\ UNCHANGED <<tcpVars, udpVars, codecVars, segVars, outVars>>
    /\ UNCHANGED channelClosed
    /\ UNCHANGED <<procPc, nilSends>>

(* The channel receiver: for cmd := range channel takes the datagram of    *)
(* the sender that has waited longest, which ends that sender's send.      *)
ChannelReceive ==
    /\ ~panicked
    /\ ~channelClosed
    /\ procPc = "serving"
    /\ cmd = <<>>
    /\ ProcessDatagramsChannel # <<>>
    /\ cmd' = <<Head(ProcessDatagramsChannel)>>
    /\ ProcessDatagramsChannel' = Tail(ProcessDatagramsChannel)
    /\ arrived' = Append(arrived, Head(ProcessDatagramsChannel))
    /\ UNCHANGED <<newElement, listCorrupt, procLog, drainLeft>>
    /\ UNCHANGED <<processedDatagramList, pcmAudio, tickPc, lastProc,
                   pcmTotal, fed, inOrder, newDatagramList, panicked>>
    /\ UNCHANGED <<tcpVars, udpVars, codecVars, segVars, outVars>>
    /\ UNCHANGED channelClosed
    /\ UNCHANGED <<procPc, nilSends>>

(* The channel receiver: newDatagramList.PushBack(datagram) returns.  On a *)
(* list a data race has damaged the new element may not be found from the  *)
(* front either.                                                           *)
ReceiverPushBack(lost) ==
    /\ ~panicked
    /\ cmd # <<>>
    /\ lost => listCorrupt
    /\ newDatagramList' = IF lost THEN newDatagramList
                          ELSE pushBack(newDatagramList, cmd[1])
    /\ cmd' = <<>>
    /\ UNCHANGED <<ProcessDatagramsChannel, newElement, listCorrupt, arrived,
                   procLog, drainLeft>>
    /\ UNCHANGED <<processedDatagramList, pcmAudio, tickPc, lastProc,
                   pcmTotal, fed, inOrder, panicked>>
    /\ UNCHANGED <<tcpVars, udpVars, codecVars, segVars, outVars>>
    /\ UNCHANGED channelClosed
    /\ UNCHANGED <<procPc, nilSends>>

(* operateAudioProcessing, started by main as a goroutine next to          *)
(* operateAudioIn, makes the channel and assigns it to the package         *)
(* variable ProcessDatagramsChannel, which is nil until then.              *)
ProcMakeChannel ==
    /\ procPc = "start"
    /\ procPc' = "made"
    /\ UNCHANGED <<ProcessDatagramsChannel, cmd, newElement, listCorrupt,
                   arrived, procLog, drainLeft, channelClosed, nilSends>>
    /\ UNCHANGED <<processedDatagramList, pcmAudio, tickPc, lastProc,
                   pcmTotal, fed, inOrder, newDatagramList, panicked>>
    /\ UNCHANGED <<tcpVars, udpVars, codecVars, segVars, outVars>>

(* operateAudioProcessing has made its writer and its file and starts the  *)
(* tick goroutine and the receiver of the channel.                         *)
ProcServe ==
    /\ procPc = "made"
    /\ procPc' = "serving"
    /\ UNCHANGED <<ProcessDatagramsChannel, cmd, newElement, listCorrupt,
                   arrived, procLog, drainLeft, channelClosed, nilSends>>
    /\ UNCHANGED <<processedDatagramList, pcmAudio, tickPc, lastProc,
                   pcmTotal, fed, inOrder, newDatagramList, panicked>>
    /\ UNCHANGED <<tcpVars, udpVars, codecVars, segVars, outVars>>

(* handleUrtpDatagram sends while ProcessDatagramsChannel is nil: a send   *)
(* on a nil channel never returns, whatever is assigned to the variable    *)
(* afterwards.                                                             *)
ChannelSendNil(packet) ==
    /\ ~panicked
    /\ procPc = "start"
    /\ nilSends < MaxSenders
    /\ ~urtpDecodeAudio(packet).panic
    /\ nilSends' = nilSends + 1
    /\ UNCHANGED <<ProcessDatagramsChannel, cmd, newElement, listCorrupt,
                   arrived, procLog, drainLeft, channelClosed, procPc>>
    /\ UNCHANGED <<processedDatagramList, pcmAudio, tickPc, lastProc,
                   pcmTotal, fed, inOrder, newDatagramList, panicked>>
    /\ UNCHANGED <<tcpVars, udpVars, codecVars, segVars, outVars>>

(* The channel is closed: the loop of the receiver, for cmd := range       *)
(* channel, ends after the datagram it has in hand, and a goroutine that   *)
(* stands in a send on the channel panics.  The ticker and the tick        *)
(* goroutine are not touched.                                              *)
ChannelClose ==
    /\ ~panicked
    /\ ~channelClosed
    /\ channelClosed' = TRUE
    /\ panicked' = (ProcessDatagramsChannel # <<>>)
    /\ UNCHANGED <<ProcessDatagramsChannel, cmd, newElement, listCorrupt,
                   arrived, procLog, drainLeft>>
    /\ UNCHANGED <<processedDatagramList, pcmAudio, tickPc, lastProc,
                   pcmTotal, fed, inOrder, newDatagramList>>
    /\ UNCHANGED <<tcpVars, udpVars, codecVars, segVars, outVars>>
    /\ UNCHANGED <<procPc, nilSends>>

(* handleUrtpDatagram sends on the channel after it was closed: the send   *)
(* panics                                                                  *)
ChannelSendClosed(packet) ==
    /\ ~panicked
    /\ channelClosed
    /\ ~urtpDecodeAudio(packet).panic
    /\ panicked' = TRUE
    /\ UNCHANGED chanVars
    /\ UNCHANGED <<processedDatagramList, pcmAudio, tickPc, lastProc,
                   pcmTotal, fed, inOrder, newDatagramList>>
    /\ UNCHANGED <<tcpVars, udpVars, codecVars, segVars, outVars>>

(* The tick goroutine at a tick: newElement := newDatagramList.Front().    *)
(* With no element the loop over the list and the trimming are skipped.    *)
ProcTickFront(race) ==
    /\ ~panicked
    /\ procPc = "serving"
    /\ tickPc = "idle"
    /\ race \in { "none", "panic" }
    /\ race = "panic" => (cmd # <<>> \/ listCorrupt)
    /\ IF race = "panic"
       THEN /\ panicked' = TRUE
            /\ UNCHANGED <<newElement, tickPc, drainLeft>>
       ELSE /\ panicked' = FALSE
            /\ drainLeft' = Len(newDatagramList)
            /\ IF newDatagramList # <<>>
               THEN /\ newElement' = <<Head(newDatagramList)>>
                    /\ tickPc' = "process"
               ELSE /\ newElement' = <<>>
                    /\ tickPc' = "encode"
    /\ UNCHANGED <<ProcessDatagramsChannel, cmd, listCorrupt, arrived,
                   procLog>>
    /\ UNCHANGED <<processedDatagramList, pcmAudio, lastProc, pcmTotal, fed,
                   inOrder, newDatagramList>>
    /\ UNCHANGED <<tcpVars, udpVars, codecVars, segVars, outVars>>
    /\ UNCHANGED channelClosed
    /\ UNCHANGED <<procPc, nilSends>>

(* The tick goroutine: processDatagram(newElement.Value,                   *)
(* processedDatagramList)                                                  *)
ProcTickProcess ==
    /\ ~panicked
    /\ tickPc = "process"
    /\ LET r == processDatagram(newElement[1], processedDatagramList)
       IN  /\ procLog' = Append(procLog,
                                [datagram |-> newElement[1],
                                 saved |-> processedDatagramList])
           /\ pcmAudio' = pcmAudio \o written(r)
           /\ panicked' = r.panic
           /\ tickPc' = IF r.panic THEN tickPc ELSE "move"
    /\ UNCHANGED <<ProcessDatagramsChannel, cmd, newElement, listCorrupt,
                   arrived, drainLeft>>
    /\ UNCHANGED <<processedDatagramList, lastProc, pcmTotal, fed, inOrder,
                   newDatagramList>>
    /\ UNCHANGED <<tcpVars, udpVars, codecVars, segVars, outVars>>
    /\ UNCHANGED channelClosed
    /\ UNCHANGED <<procPc, nilSends>>

(* The tick goroutine: processedDatagramList.PushFront(newElement.Value),  *)
(* newDatagramList.Remove(newElement), newElement.Next(), which is nil for *)
(* a removed element and ends the loop, and the trimming loop.             *)
ProcTickMove(race) ==
    /\ ~panicked
    /\ tickPc = "move"
    /\ race \in RaceOutcomes
    /\ race # "none" => cmd # <<>>
    /\ processedDatagramList' =
           trimProcessed(<<newElement[1]>> \o processedDatagramList)
    /\ newDatagramList' = removeElement(newDatagramList, newElement[1])
    /\ newElement' = <<>>
    /\ drainLeft' = drainLeft - 1
    /\ tickPc' = "encode"
    /\ panicked' = (race = "panic")
    /\ cmd' = IF race = "lost" THEN <<>> ELSE cmd
    /\ listCorrupt' = (listCorrupt \/ race = "lost")
    /\ UNCHANGED <<ProcessDatagramsChannel, arrived, procLog>>
    /\ UNCHANGED <<pcmAudio, lastProc, pcmTotal, fed, inOrder>>
    /\ UNCHANGED <<tcpVars, udpVars, codecVars, segVars, outVars>>
    /\ UNCHANGED channelClosed
    /\ UNCHANGED <<procPc, nilSends>>

(* The tick goroutine, second part: encodeOutput reads pcmAudio until it   *)
(* is empty.                                                               *)
TickEncode ==
    /\ ~panicked
    /\ tickPc = "encode"
    /\ pcmAudio' = <<>>
    /\ tickPc' = "idle"
    /\ UNCHANGED <<tcpVars, udpVars, newDatagramList, processedDatagramList,
                   panicked, lastProc, pcmTotal, fed, inOrder, chanVars,
                   codecVars, segVars, outVars>>

(* decodeUnicam applied to the chosen payload *)
DecodeUnicamCall ==
    /\ codecOut = <<>>
    /\ codecOut' = <<decodeUnicam(codecIn)>>
    /\ UNCHANGED <<codecIn, tcpVars, udpVars, newDatagramList, procVars,
                   panicked, segVars, outVars>>

(* The tick goroutine from encodeOutput on, with pcmLen bytes in pcmAudio: *)
(* mp3Duration grows by what was encoded; when the rotation is due the     *)
(* tag and the audio are written, the writer is closed and the duration    *)
(* reduced by its padding (what the flush gives out goes to mp3Audio,      *)
(* after the file was written), the file is announced on                   *)
(* MediaControlChannel                                                     *)
(* if nothing failed, and in every case mp3Offset advances, mp3Duration    *)
(* restarts and a new file and writer are made.  The goroutine waits in    *)
(* the channel send until the publisher has taken the message.             *)
SegmentTick(pcmLen, io) ==
    /\ mediaChannel = <<>>
    /\ Len(segmentLog) < MaxRotations
    /\ LET encoded == mp3Duration + encodeOutput(pcmLen)
           tagWritten == mp3HandleOk /\ io.tagOk
           corrected == closedDuration(encoded, tagWritten, mp3WriterOk,
                                       io.padding)
           announced == tagWritten /\ io.writeOk
           seg == Len(segmentLog) + 1
           buffer == bufferEncoded(mp3Audio, pcmLen, mp3WriterOk, seg)
       IN  /\ onlyFull' = (onlyFull
                           /\ pcmLen \in {0, SAMPLES_PER_BLOCK
                                                * URTP_SAMPLE_SIZE})
           /\ framesFed' = IF onlyFull'
                           THEN framesFed + (IF pcmLen = 0 THEN 0 ELSE 1)
                           ELSE 0
           /\ IF rotationDue(encoded)
              THEN /\ segmentLog' = Append(segmentLog,
                          [offset |-> mp3Offset, encoded |-> encoded,
                           duration |-> corrected,
                           published |-> announced,
                           file |-> fileWritten(buffer, tagWritten,
                                                io.writeOk),
                           flushed |-> tagWritten /\ mp3WriterOk])
                   /\ mp3Audio' = bufferRotated(buffer, tagWritten,
                                                io.writeOk, mp3WriterOk, seg)
                   /\ mediaChannel' =
                          IF announced
                          THEN <<[fileName |-> Len(segmentLog) + 1,
                                  timestamp |-> now,
                                  duration |-> corrected,
                                  usable |-> TRUE]>>
                          ELSE <<>>
                   /\ filesSent' = filesSent + (IF announced THEN 1 ELSE 0)
                   /\ mp3Offset' = nextOffset(mp3Offset, encoded, corrected)
                   /\ mp3Duration' = 0
                   /\ mp3HandleOk' = io.openOk
                   /\ mp3Handles' = handlesAfterRotation(mp3Handles,
                                         mp3HandleOk, io.tagOk, io.openOk)
                   /\ mp3WriterOk' = io.writerOk
              ELSE /\ mp3Duration' = encoded
                   /\ mp3Audio' = buffer
                   /\ UNCHANGED <<mp3Offset, mp3HandleOk, mp3WriterOk,
                                  mp3Handles, segmentLog, mediaChannel,
                                  filesSent>>
    /\ UNCHANGED <<now, mp3FileList, indexFile, removeFailed, idxVars,
                   listAtWrite>>
    /\ UNCHANGED <<tcpVars, udpVars, newDatagramList, procVars, panicked,
                   codecVars>>
    /\ UNCHANGED indexHandles

(* The publisher's channel goroutine takes a message: the file is put at   *)
(* the back of mp3FileList and the index file is rewritten.                *)
MediaReceive ==
    /\ mediaChannel # <<>>
    /\ mediaChannel' = <<>>
    /\ mp3FileList' = Append(mp3FileList, mediaChannel[1])
    /\ indexFile' = updateIndexFile(Append(mp3FileList, mediaChannel[1]))
    /\ listAtWrite' = Append(mp3FileList, mediaChannel[1])
    /\ UNCHANGED <<now, filesSent, removeFailed, idxVars>>
    /\ UNCHANGED <<tcpVars, udpVars, newDatagramList, procVars, panicked,
                   codecVars, segVars>>
    /\ indexHandles' = handlesAfterUpdate(indexHandles)

(* The segment writer, seen from the publisher: a rotation that announces *)
(* a file of the given duration, stamped with the time of the rotation;    *)
(* at most `most' files are announced, none after the time `latest'.       *)
MediaSend(duration, most, latest) ==
    /\ mediaChannel = <<>>
    /\ filesSent < most
    /\ now <= latest
    /\ mediaChannel' = <<[fileName |-> filesSent + 1, timestamp |-> now,
                          duration |-> duration, usable |-> TRUE]>>
    /\ filesSent' = filesSent + 1
    /\ UNCHANGED <<now, mp3FileList, indexFile, removeFailed, idxVars,
                   listAtWrite>>
    /\ UNCHANGED <<tcpVars, udpVars, newDatagramList, procVars, panicked,
                   codecVars, segVars>>
    /\ UNCHANGED indexHandles

(* The stream ticker fires, 5 seconds after the last time, and its         *)
(* goroutine goes through the file list.                                   *)
StreamTick(removeOk) ==
    /\ now + STREAM_TICK_SECONDS <= MaxClock
    /\ now' = now + STREAM_TICK_SECONDS
    /\ LET done == housekeepFrom(mp3FileList, 1, now', removeOk, indexFile)
       IN  /\ mp3FileList' = done.list
           /\ indexFile' = done.index
           /\ listAtWrite' = IF \E i \in 1..Len(mp3FileList) :
                                    outOfDate(mp3FileList[i], now')
                             THEN mp3FileList
                             ELSE listAtWrite
    /\ removeFailed' = (removeFailed \/ ~removeOk)
    /\ UNCHANGED <<mediaChannel, filesSent, idxVars>>
    /\ UNCHANGED <<tcpVars, udpVars, newDatagramList, procVars, panicked,
                   codecVars, segVars>>
    /\ indexHandles' = handlesAfterUpdates(indexHandles,
                           housekeepUpdates(mp3FileList, 1, now', removeOk))

(* The publisher step by step: updateIndexFile reads the list, takes the  *)
(* mutex, creates the file anew, writes it and gives the mutex back, and   *)
(* other goroutines run between these steps.                               *)

(* The channel goroutine takes a message, puts the file on the list and    *)
(* enters updateIndexFile, which goes through the list.                    *)
IndexReceive ==
    /\ mediaChannel # <<>>
    /\ writerPc["channel"] = "idle"
    /\ mediaChannel' = <<>>
    /\ mp3FileList' = Append(mp3FileList, mediaChannel[1])
    /\ writerScan' = [writerScan EXCEPT !["channel"] =
                                            indexScan(mp3FileList')]
    /\ writerPc' = [writerPc EXCEPT !["channel"] = "lock"]
    /\ UNCHANGED <<now, indexFile, filesSent, removeFailed, indexAccess,
                   tickIndex, readerPc, respVars, servedPartial, listAtWrite>>
    /\ UNCHANGED <<tcpVars, udpVars, newDatagramList, procVars, panicked,
                   codecVars, segVars>>
    /\ UNCHANGED indexHandles

(* The stream ticker fires and its goroutine starts at the list's front *)
TickBegin ==
    /\ tickIndex = 0
    /\ now + STREAM_TICK_SECONDS <= IndexClock
    /\ now' = now + STREAM_TICK_SECONDS
    /\ tickIndex' = 1
    /\ UNCHANGED <<mediaChannel, mp3FileList, indexFile, filesSent,
                   removeFailed, indexAccess, writerPc, writerScan, readerPc, respVars,
                   servedPartial, listAtWrite>>
    /\ UNCHANGED <<tcpVars, udpVars, newDatagramList, procVars, panicked,
                   codecVars, segVars>>
    /\ UNCHANGED indexHandles

(* One round of the stream ticker's loop: past the end the goroutine waits *)
(* for the next tick; at a file that is out of date it enters              *)
(* updateIndexFile; at any other file it does the rest of the round.       *)
TickElement(removeOk) ==
    /\ tickIndex >= 1
    /\ writerPc["tick"] = "idle"
    /\ IF tickIndex > Len(mp3FileList)
       THEN /\ tickIndex' = 0
            /\ UNCHANGED <<mp3FileList, writerPc, writerScan, removeFailed>>
       ELSE IF outOfDate(mp3FileList[tickIndex], now)
       THEN /\ writerScan' = [writerScan EXCEPT !["tick"] =
                                                    indexScan(mp3FileList)]
            /\ writerPc' = [writerPc EXCEPT !["tick"] = "lock"]
            /\ UNCHANGED <<mp3FileList, tickIndex, removeFailed>>
       ELSE /\ mp3FileList' =
                   tickAdvance(mp3FileList, tickIndex, removeOk).list
            /\ tickIndex' =
                   tickAdvance(mp3FileList, tickIndex, removeOk).index
            /\ removeFailed' = (removeFailed \/ ~removeOk)
            /\ UNCHANGED <<writerPc, writerScan>>
    /\ UNCHANGED <<mediaChannel, now, indexFile, filesSent, indexAccess,
                   readerPc, respVars, servedPartial, listAtWrite>>
    /\ UNCHANGED <<tcpVars, udpVars, newDatagramList, procVars, panicked,
                   codecVars, segVars>>
    /\ UNCHANGED indexHandles

(* indexAccess.Lock() in updateIndexFile *)
IndexLock(g) ==
    /\ writerPc[g] = "lock"
    /\ canLock(indexAccess)
    /\ indexAccess' = g
    /\ writerPc' = [writerPc EXCEPT ![g] = "create"]
    /\ UNCHANGED <<mediaChannel, now, mp3FileList, indexFile, filesSent,
                   removeFailed, writerScan, tickIndex, readerPc, respVars,
                   servedPartial, listAtWrite>>
    /\ UNCHANGED <<tcpVars, udpVars, newDatagramList, procVars, panicked,
                   codecVars, segVars>>
    /\ UNCHANGED indexHandles

(* os.Create: the index file is there and empty *)
IndexCreate(g) ==
    /\ writerPc[g] = "create"
    /\ indexFile' = indexTruncated
    /\ writerPc' = [writerPc EXCEPT ![g] = "write"]
    /\ UNCHANGED <<mediaChannel, now, mp3FileList, filesSent, removeFailed,
                   indexAccess, writerScan, tickIndex, readerPc, respVars,
                   servedPartial, listAtWrite>>
    /\ UNCHANGED <<tcpVars, udpVars, newDatagramList, procVars, panicked,
                   codecVars, segVars>>
    /\ indexHandles' = handlesAfterUpdate(indexHandles)

(* The header and the segment list are written *)
IndexWrite(g) ==
    /\ writerPc[g] = "write"
    /\ indexFile' = indexContent(writerScan[g])
    /\ listAtWrite' = mp3FileList
    /\ writerPc' = [writerPc EXCEPT ![g] = "unlock"]
    /\ UNCHANGED <<mediaChannel, now, mp3FileList, filesSent, removeFailed,
                   indexAccess, writerScan, tickIndex, readerPc, respVars,
                   servedPartial>>
    /\ UNCHANGED <<tcpVars, udpVars, newDatagramList, procVars, panicked,
                   codecVars, segVars>>
    /\ UNCHANGED indexHandles

(* indexAccess.Unlock() and the return from updateIndexFile: the channel   *)
(* goroutine waits for the next message, the stream ticker's goroutine     *)
(* goes on in its round.                                                   *)
IndexUnlock(g) ==
    /\ writerPc[g] = "unlock"
    /\ indexAccess' = "none"
    /\ writerPc' = [writerPc EXCEPT ![g] =
                                     IF g = "tick" THEN "after" ELSE "idle"]
    /\ UNCHANGED <<mediaChannel, now, mp3FileList, indexFile, filesSent,
                   removeFailed, writerScan, tickIndex, readerPc, respVars,
                   servedPartial, listAtWrite>>
    /\ UNCHANGED <<tcpVars, udpVars, newDatagramList, procVars, panicked,
                   codecVars, segVars>>
    /\ UNCHANGED indexHandles

(* The rest of the stream ticker's round after updateIndexFile *)
TickAfter(removeOk) ==
    /\ writerPc["tick"] = "after"
    /\ writerPc' = [writerPc EXCEPT !["tick"] = "idle"]
    /\ mp3FileList' = tickAdvance(mp3FileList, tickIndex, removeOk).list
    /\ tickIndex' = tickAdvance(mp3FileList, tickIndex, removeOk).index
    /\ removeFailed' = (removeFailed \/ ~removeOk)
    /\ UNCHANGED <<mediaChannel, now, indexFile, filesSent, indexAccess,
                   writerScan, readerPc, respVars, servedPartial, listAtWrite>>
    /\ UNCHANGED <<tcpVars, udpVars, newDatagramList, procVars, panicked,
                   codecVars, segVars>>
    /\ UNCHANGED indexHandles

(* streamHandler for the index file, a new request with its own response: *)
(* indexAccess.Lock()                                                      *)
ReadLock ==
    /\ readerPc = "idle"
    /\ canLock(indexAccess)
    /\ indexAccess' = "reader"
    /\ readerPc' = "serve"
    /\ UNCHANGED respVars
    /\ UNCHANGED <<mediaChannel, now, mp3FileList, indexFile, filesSent,
                   removeFailed, writerPc, writerScan, tickIndex,
                   servedPartial, listAtWrite>>
    /\ UNCHANGED <<tcpVars, udpVars, newDatagramList, procVars, panicked,
                   codecVars, segVars>>
    /\ UNCHANGED indexHandles

(* http.ServeFile sends the file as it is: it sets the Content-Type of the *)
(* response, if none is set, from the file's extension or content, and     *)
(* writes the header and then the body to the connection.                  *)
ReadServe(ctype) ==
    /\ readerPc = "serve"
    /\ servedPartial' = (servedPartial \/ indexFile.fixed < 2)
    /\ readerPc' = "unlock"
    /\ outHeader' = serveFileHeader(outHeader, ctype)
    /\ wireHeader' = <<serveFileHeader(outHeader, ctype)>>
    /\ UNCHANGED <<mediaChannel, now, mp3FileList, indexFile, filesSent,
                   removeFailed, indexAccess, writerPc, writerScan,
                   tickIndex, listAtWrite>>
    /\ UNCHANGED <<tcpVars, udpVars, newDatagramList, procVars, panicked,
                   codecVars, segVars>>
    /\ UNCHANGED indexHandles

(* indexAccess.Unlock() in streamHandler *)
ReadUnlock ==
    /\ readerPc = "unlock"
    /\ indexAccess' = "none"
    /\ readerPc' = "header"
    /\ UNCHANGED <<mediaChannel, now, mp3FileList, indexFile, filesSent,
                   removeFailed, writerPc, writerScan, tickIndex,
                   servedPartial, listAtWrite, respVars>>
    /\ UNCHANGED <<tcpVars, udpVars, newDatagramList, procVars, panicked,
                   codecVars, segVars>>
    /\ UNCHANGED indexHandles

(* streamHandler for the index file returns: the request is over *)
ReadReturn ==
    /\ readerPc = "return"
    /\ outHeader' = NoHeader
    /\ wireHeader' = <<>>
    /\ readerPc' = "idle"
    /\ UNCHANGED <<mediaChannel, now, mp3FileList, indexFile, filesSent,
                   removeFailed, indexAccess, writerPc, writerScan,
                   tickIndex, servedPartial, listAtWrite>>
    /\ UNCHANGED <<tcpVars, udpVars, newDatagramList, procVars, panicked,
                   codecVars, segVars>>
    /\ UNCHANGED indexHandles

(* streamHandler for the index file: out.Header().Set("Content-Type",      *)
(* "application/x-mpegurl") and out.Header().Set("Cache-Control",          *)
(* "no-cache").  What has been sent stays as it is.                        *)
ReadSetHeader ==
    /\ readerPc = "header"
    /\ outHeader' = [ContentType |-> "application/x-mpegurl",
                     CacheControl |-> "no-cache"]
    /\ readerPc' = "return"
    /\ UNCHANGED <<mediaChannel, now, mp3FileList, indexFile, filesSent,
                   removeFailed, indexAccess, writerPc, writerScan,
                   tickIndex, servedPartial, listAtWrite, wireHeader>>
    /\ UNCHANGED <<tcpVars, udpVars, newDatagramList, procVars, panicked,
                   codecVars, segVars>>
    /\ UNCHANGED indexHandles

--------------------------------------------------------------------------
(* Specifications                                                          *)

(* UDP ingest and the processor *)
Next ==
    \/ \E d \in UdpInputs : UdpReceive(d)
    \/ UdpReadError
    \/ TickProcess
    \/ TickEncode

Spec == Init /\ [][Next]_vars

(* TCP ingest: the reassembly state machine *)
NextStream ==
    \/ \E f \in TcpInputs : TcpSend(f)
    \/ \E n \in 1..URTP_DATAGRAM_MAX_SIZE : TcpRead(n)

SpecStream == Init /\ [][NextStream]_vars

(* TCP ingest: headers that are rejected *)
NextHeader ==
    \/ \E f \in HeaderInputs : TcpSend(f)
    \/ \E n \in HeaderReadSizes : TcpRead(n)

SpecHeader == Init /\ [][NextHeader]_vars

(* Both transports: the payload length a header declares *)
NextLength ==
    \/ \E d \in LengthUdpInputs : UdpReceive(d)
    \/ \E f \in LengthTcpInputs : TcpSend(f)
    \/ \E n \in LengthReadSizes : TcpRead(n)

SpecLength == Init /\ [][NextLength]_vars

(* The TCP server with its connections *)
NextConn ==
    \/ TcpAccept
    \/ \E c \in 1..MaxConns, f \in ConnInputs : ConnSend(c, f)
    \/ \E c \in 1..MaxConns, n \in ConnReadSizes : ConnRead(c, n)
    \/ \E c \in 1..MaxConns : ConnReadError(c)
    \/ \E c \in 1..MaxConns : ConnEnter(c)
    \/ \E c \in 1..MaxConns, raced \in BOOLEAN : ConnHandle(c, raced)

SpecConn == Init /\ [][NextConn]_vars

(* The processor: the channel, its receiver and the tick goroutine *)
NextProc ==
    \/ \E packet \in ProcInputs : ChannelSend(packet)
    \/ ChannelReceive
    \/ \E lost \in BOOLEAN : ReceiverPushBack(lost)
    \/ \E race \in RaceOutcomes : ProcTickFront(race)
    \/ ProcTickProcess
    \/ \E race \in RaceOutcomes : ProcTickMove(race)
    \/ TickEncode

SpecProc == Init /\ [][NextProc]_vars

(* The program from main on: the goroutines of the processor and of the    *)
(* ingest are started one after the other and run side by side.            *)
InitStart ==
    /\ InitIngest
    /\ InitSegment
    /\ InitOut
    /\ newDatagramList = <<>>
    /\ processedDatagramList = <<>>
    /\ pcmAudio = <<>>
    /\ tickPc = "idle"
    /\ panicked = FALSE
    /\ lastProc = <<>>
    /\ pcmTotal = 0
    /\ fed = 0
    /\ inOrder = TRUE
    /\ ProcessDatagramsChannel = <<>>
    /\ cmd = <<>>
    /\ newElement = <<>>
    /\ listCorrupt = FALSE
    /\ arrived = <<>>
    /\ procLog = <<>>
    /\ drainLeft = 0
    /\ channelClosed = FALSE
    /\ procPc = "start"
    /\ nilSends = 0
    /\ codecIn = <<>>
    /\ codecOut = <<>>

NextStart ==
    \/ NextProc
    \/ ProcMakeChannel
    \/ ProcServe
    \/ \E packet \in ProcInputs : ChannelSendNil(packet)

SpecStart == InitStart /\ [][NextStart]_vars

(* The steps of the tick goroutine, from the ticker's event to the end of  *)
(* encodeOutput                                                            *)
ProcTick ==
    \/ \E race \in RaceOutcomes : ProcTickFront(race)
    \/ ProcTickProcess
    \/ \E race \in RaceOutcomes : ProcTickMove(race)
    \/ TickEncode

(* The processor with a channel that is closed at some time.  The ticker   *)
(* is never stopped and goes on firing every 20 ms, and a goroutine that   *)
(* can run is run: the tick goroutine is not held up for ever.             *)
NextClose ==
    \/ NextProc
    \/ ChannelClose
    \/ \E packet \in ProcInputs : ChannelSendClosed(packet)

SpecClose == Init /\ [][NextClose]_vars /\ WF_vars(ProcTick)

(* The UNICAM decoder on its own *)
NextUnicam == DecodeUnicamCall

SpecUnicam == InitUnicam /\ [][NextUnicam]_vars

(* The segment writer and the publisher's channel goroutine *)
NextSegment ==
    \/ \E pcmLen \in SegmentPcmSizes, io \in SegmentIo :
          SegmentTick(pcmLen, io)
    \/ MediaReceive

SpecSegment == Init /\ [][NextSegment]_vars

(* The publisher: its channel goroutine and its stream ticker *)
NextOut ==
    \/ \E duration \in SentDurations :
          MediaSend(duration, MaxFiles, SendWindow)
    \/ MediaReceive
    \/ \E removeOk \in BOOLEAN : StreamTick(removeOk)

SpecOut == Init /\ [][NextOut]_vars

(* The publisher step by step, with a client that reads the index file *)
NextIndex ==
    \/ MediaSend(MAX_MP3_FILE_DURATION, MaxIndexFiles, IndexClock)
    \/ IndexReceive
    \/ TickBegin
    \/ \E removeOk \in BOOLEAN : TickElement(removeOk)
    \/ \E removeOk \in BOOLEAN : TickAfter(removeOk)
    \/ \E g \in Writers : IndexLock(g)
    \/ \E g \in Writers : IndexCreate(g)
    \/ \E g \in Writers : IndexWrite(g)
    \/ \E g \in Writers : IndexUnlock(g)
    \/ ReadLock
    \/ \E ctype \in ServeFileTypes : ReadServe(ctype)
    \/ ReadUnlock
    \/ ReadSetHeader
    \/ ReadReturn

SpecIndex == Init /\ [][NextIndex]_vars

--------------------------------------------------------------------------
(* Properties of TCP reassembly (SpecStream)                               *)

(* The payload-length field of a header *)
payloadLenField(f) ==
    f[URTP_NUM_BYTES_AUDIO_OFFSET + 1] * 256
      + f[URTP_NUM_BYTES_AUDIO_OFFSET + 2]

(* The client has written exactly n byte strings, all of them valid frames *)
(* that carry a payload, and the server has read every byte.               *)
FedFramesWithPayload(n) ==
    /\ Len(sent) = n
    /\ wire = <<>>
    /\ \A i \in 1..n : /\ sent[i] \in ValidTcpFrames
                        /\ payloadLenField(sent[i]) > 0

(* C1: reassembly round trip.  From the initial WAIT_SYNC state, once the  *)
(* bytes of one valid URTP frame F have been fed to handleUrtpStream, in   *)
(* whatever chunks, handleUrtpDatagram has been called exactly once, with  *)
(* F.  Stated here for the frames that carry a payload, so that it does    *)
(* not rest on the payload_len = 0 case (C9).                              *)
C1_ReassemblyRoundTrip ==
    FedFramesWithPayload(1) => emitted = sent

(* C2: two consecutive valid frames, fed split at arbitrary byte           *)
(* boundaries, come out as exactly two frames, in order, bit-identical.    *)
(* Stated, as C1, for frames that carry a payload.                         *)
C2_ConsecutiveFramesInOrder ==
    FedFramesWithPayload(2) => emitted = sent

(* C3: every packet that handleUrtpDatagram posts (it posts the packets of *)
(* at least URTP_HEADER_SIZE bytes) begins with a header that has the sync *)
(* byte, a coding scheme below 2 and a payload length no larger than the   *)
(* largest the code lets through.                                          *)
C3_AcceptedFrameInvariant ==
    \A i \in 1..Len(emitted) :
        Len(emitted[i]) >= URTP_HEADER_SIZE =>
            /\ emitted[i][1] = SYNC_BYTE
            /\ emitted[i][2] \in {PCM_SIGNED_16_BIT_16000_HZ,
                                  UNICAM_COMPRESSED_16000_HZ}
            /\ payloadLenField(emitted[i]) <= URTP_DATAGRAM_MAX_SIZE

(* C9: a frame with payload_len = 0 on the TCP stream is posted as one     *)
(* frame, and the reassembler is then in WAIT_SYNC with an empty frame     *)
(* buffer.                                                                 *)
C9_EmptyPayloadAccepted ==
    ( /\ Len(sent) = 1
      /\ wire = <<>>
      /\ sent[1] \in ValidTcpFrames
      /\ payloadLenField(sent[1]) = 0 )
    => /\ emitted = sent
       /\ urtpDatagram = <<>>
       /\ urtpReassemblyState = URTP_STATE_WAITING_SYNC

--------------------------------------------------------------------------
(* Properties of the processor (Spec)                                      *)

(* The last sample of a datagram's audio, as written to pcmAudio *)
lastSampleBytes(d) == sampleBytes(d.Audio[Len(d.Audio)])

(* C4: processDatagram and handleGap complete, without a run-time failure, *)
(* on every frame that ingest posts.                                       *)
C4_ProcessorNeverFails ==
    lastProc # <<>> => ~lastProc[1].r.panic

(* C5: after N frames whose sequence numbers each follow the previous one  *)
(* by 1 have been processed, N * SAMPLES_PER_BLOCK * 2 bytes have been     *)
(* written to the PCM buffer.                                              *)
C5_InOrderFramesFillBlocks ==
    (inOrder /\ ~panicked) =>
        pcmTotal = fed * SAMPLES_PER_BLOCK * URTP_SAMPLE_SIZE

(* C6: when a frame with samples follows a frame with samples whose        *)
(* sequence number is 2 lower (one frame missing), exactly                 *)
(* SAMPLES_PER_BLOCK samples equal to the last sample of that frame are    *)
(* written before its own samples.                                         *)
C6_OneLostFrameOneBlock ==
    ( /\ lastProc # <<>>
      /\ lastProc[1].saved # <<>>
      /\ ~lastProc[1].saved[1].AudioNil
      /\ Len(lastProc[1].saved[1].Audio) > 0
      /\ ~lastProc[1].datagram.AudioNil
      /\ lastProc[1].datagram.SequenceNumber
           = (lastProc[1].saved[1].SequenceNumber + 2) % Two16 )
    => lastProc[1].r.gap1.fill
         = Repeat(lastSampleBytes(lastProc[1].saved[1]), SAMPLES_PER_BLOCK)

(* What C7 expects of a call handleGap(n, prev): it returns; it has        *)
(* written nothing for n of 500 ms or more, else n samples: 2n bytes, each *)
(* pair the last sample of prev where prev has one, zero where prev is     *)
(* absent.                                                                 *)
gapAsClaimed(call, saved) ==
    /\ ~call.panic
    /\ IF (call.n * 1000) \div SAMPLING_FREQUENCY >= MAX_GAP_FILL_MILLISECONDS
       THEN call.fill = <<>>
       ELSE /\ Len(call.fill) = call.n * URTP_SAMPLE_SIZE
            /\ saved = <<>> => call.fill = Repeat(<<0, 0>>, call.n)
            /\ ( /\ saved # <<>>
                 /\ ~saved[1].AudioNil
                 /\ Len(saved[1].Audio) > 0 )
                 => call.fill = Repeat(lastSampleBytes(saved[1]), call.n)

(* C7: every call of handleGap made by processDatagram did what C7         *)
(* expects; in particular the gap of a frame 99 after its predecessor      *)
(* writes nothing.                                                         *)
C7_HandleGapFill ==
    lastProc # <<>> =>
        LET p == lastProc[1]
        IN  /\ p.r.gap1.called => gapAsClaimed(p.r.gap1, p.saved)
            /\ p.r.gap2.called => gapAsClaimed(p.r.gap2, p.saved)

(* C8: a frame with sequence number 0 processed directly after a frame     *)
(* with sequence number 65535 is in order: handleGap is not called for a   *)
(* sequence gap, and nothing is written before the frame's own samples.    *)
C8_SequenceWrapInOrder ==
    ( /\ lastProc # <<>>
      /\ lastProc[1].saved # <<>>
      /\ lastProc[1].saved[1].SequenceNumber = Two16 - 1
      /\ lastProc[1].datagram.SequenceNumber = 0 )
    => /\ ~lastProc[1].r.gap1.called
       /\ lastProc[1].r.gap1.fill = <<>>

(* Reached: frame 0 has been processed after frame 65535, and its 320      *)
(* samples were written.                                                   *)
C8_Witness ==
    /\ lastProc # <<>>
    /\ lastProc[1].saved # <<>>
    /\ lastProc[1].saved[1].SequenceNumber = Two16 - 1
    /\ lastProc[1].datagram.SequenceNumber = 0
    /\ ~lastProc[1].r.panic
    /\ Len(lastProc[1].r.own) = SAMPLES_PER_BLOCK * URTP_SAMPLE_SIZE
    /\ processedDatagramList[1].SequenceNumber = 0

--------------------------------------------------------------------------
(* Properties of the UNICAM decoder (SpecUnicam)                           *)

(* C10: decodeUnicam returns 16 samples for each complete 132-bit block of *)
(* the payload and ignores a trailing partial block without failing; the   *)
(* payload of sixteen bytes 0x01 and the shift byte 0x20 decodes to        *)
(* sixteen samples 0x0004.                                                 *)
C10_UnicamWholeBlocks ==
    codecOut # <<>> =>
        /\ ~codecOut[1].panic
        /\ Len(codecOut[1].audio)
             = UNICAM_SAMPLES_PER_BLOCK
               * ((Len(codecIn) * 8)
                  \div (UNICAM_SAMPLES_PER_BLOCK
                          * UNICAM_CODED_SAMPLE_SIZE_BITS
                        + UNICAM_CODED_SHIFT_SIZE_BITS))
        /\ codecIn = unicamPayload(17, 1, 32)
             => codecOut[1].audio = [x \in 1..UNICAM_SAMPLES_PER_BLOCK |-> 4]

(* The k-th sample (from 1) that the UNICAM law gives for a payload: block *)
(* b = (k-1) div 16 of pair b div 2; a pair is 33 bytes: 16 coded bytes of *)
(* the even block, the shift byte, 16 coded bytes of the odd block.        *)
unicamLawSample(payload, k) ==
    LET b == (k - 1) \div 16
        base == 33 * (b \div 2)
        c == payload[base + (b % 2) * 17 + ((k - 1) % 16) + 1]
        shiftByte == payload[base + 17]
        s == IF b % 2 = 0 THEN shiftByte \div 16 ELSE shiftByte % 16
        signed == IF c >= 128 THEN c - 256 ELSE c
    IN  ((signed * (2 ^ s)) + (Two16 * 256)) % Two16

(* C11: every sample that decodeUnicam returns equals sign_extend8(c) << s *)
(* in 16 bits, c the block's coded byte and s the high nibble of the shift *)
(* byte for an even block, the low nibble of the same byte for the odd     *)
(* block after it, the shift byte lying after the even block's 16 bytes.   *)
C11_UnicamDecodeLaw ==
    (codecOut # <<>> /\ ~codecOut[1].panic) =>
        \A k \in 1..Len(codecOut[1].audio) :
            codecOut[1].audio[k] = unicamLawSample(codecIn, k)

(* Reached: two pairs of blocks with differing bytes have been decoded,    *)
(* among them negative coded bytes and non-zero shifts of both nibbles.    *)
C11_Witness ==
    /\ codecIn = unicamRamp(66)
    /\ codecOut # <<>>
    /\ ~codecOut[1].panic
    /\ Len(codecOut[1].audio) = 64
    /\ \E k \in 17..32 : codecIn[k + 1] >= 128 /\ codecOut[1].audio[k] # 0
    /\ codecIn[50] \div 16 # 0
    /\ codecIn[50] % 16 # 0

--------------------------------------------------------------------------
(* Properties of the segment writer                                        *)

C13_RotationAtMaxDuration ==
    /\ mp3Duration < MAX_MP3_FILE_DURATION
    /\ \A i \in 1..Len(segmentLog) :
           /\ segmentLog[i].encoded >= MAX_MP3_FILE_DURATION
           /\ segmentLog[i].published =>
                  \/ \E k \in 1..Len(mediaChannel) :
                         mediaChannel[k].fileName = i
                  \/ \E k \in 1..Len(indexFile.segments) :
                         indexFile.segments[k].fileName = i
    /\ (onlyFull /\ framesFed < 750) => segmentLog = <<>>
    /\ (onlyFull /\ framesFed = 750) =>
           /\ Len(segmentLog) = 1
           /\ segmentLog[1].offset = 0
           /\ segmentLog[1].encoded = MAX_MP3_FILE_DURATION
           /\ segmentLog[1].duration <= MAX_MP3_FILE_DURATION
           /\ (segmentLog[1].published /\ mediaChannel = <<>>) =>
                  /\ Len(mp3FileList) = 1
                  /\ Len(indexFile.segments) = 1
                  /\ indexFile.segments[1].fileName = 1
                  /\ indexFile.segments[1].duration
                         = segmentLog[1].duration
                  /\ indexFile.mediaSequence = <<0>>

(* Reached: 750 full frames, one per tick, the segment published and in    *)
(* the playlist.                                                           *)
C13_Witness ==
    /\ onlyFull
    /\ framesFed = 750
    /\ Len(segmentLog) = 1
    /\ segmentLog[1].published
    /\ mediaChannel = <<>>
    /\ Len(indexFile.segments) = 1

--------------------------------------------------------------------------
(* Properties of the publisher                                             *)

(* The files of the list that are usable *)
usableFiles == SelectSeq(mp3FileList, LAMBDA f : f.usable)

(* The files that the publisher took and that are usable no more, whether  *)
(* still on the list or dropped from it                                    *)
retiredCount == (filesSent - Len(mediaChannel)) - Len(usableFiles)

(* A duration in whole seconds, rounded up *)
ceilSeconds(duration) == (duration + 999999) \div 1000000

(* The longest of the durations listed in the index file *)
longestListed ==
    CHOOSE d \in { indexFile.segments[i].duration :
                     i \in 1..Len(indexFile.segments) } :
        \A i \in 1..Len(indexFile.segments) :
            indexFile.segments[i].duration <= d

(* C14: the media sequence written to the playlist is the number of        *)
(* segments retired so far, however many segments are usable, and so       *)
(* never decreases and advances by one per segment that becomes unusable.  *)
C14_MediaSequenceCountsRetired ==
    indexFile.mediaSequence # <<>> =>
        indexFile.mediaSequence[1] = retiredCount

(* C15: every record of the list that is usable has an age of at most      *)
(* USABLE_AGE (the records of this publisher have no removable mark).      *)
C15_LifecycleInvariant ==
    \A i \in 1..Len(mp3FileList) :
        mp3FileList[i].usable => now - mp3FileList[i].timestamp <= USABLE_AGE

(* C16: once the stream ticker has run, the playlist lists no segment      *)
(* older than USABLE_AGE; with three segments received at 0, 5 and 10 s    *)
(* and the clock at 125 s all three are unusable and still on the list,    *)
(* three segments are retired, and the playlist holds the two fixed lines  *)
(* only.                                                                   *)
C16_Ageing ==
    /\ \A i \in 1..Len(indexFile.segments) :
           now - indexFile.segments[i].timestamp <= USABLE_AGE
    /\ (/\ Len(mp3FileList) = 3
        /\ mp3FileList[1].timestamp = 0
        /\ mp3FileList[2].timestamp = 5
        /\ mp3FileList[3].timestamp = 10
        /\ now = 125)
       => /\ \A i \in 1..3 : ~mp3FileList[i].usable
          /\ retiredCount = 3
          /\ indexFile.fixed = 2
          /\ indexFile.segments = <<>>

(* C17: while no os.Remove fails, no record older than REMOVABLE_AGE is    *)
(* left on the list once the stream ticker has run: every record that is   *)
(* due is dropped on the tick at which it is due.                          *)
C17_DueRecordsRemoved ==
    ~removeFailed =>
        \A i \in 1..Len(mp3FileList) :
            now - mp3FileList[i].timestamp <= REMOVABLE_AGE

(* C20: with a segment listed, the target duration of the playlist is the  *)
(* longest listed duration in whole seconds, rounded up: exactly k seconds *)
(* give k.                                                                 *)
C20_TargetDurationCeiling ==
    indexFile.segments # <<>> =>
        indexFile.targetDuration = <<ceilSeconds(longestListed)>>

(* C18: a client's read of the index file never overlaps a rewrite of it,  *)
(* from os.Create to the last write: while streamHandler serves the file   *)
(* no goroutine is between Lock and Unlock in updateIndexFile, and no      *)
(* client is ever served a file that is empty or written in part.          *)
C18_PlaylistMutualExclusion ==
    /\ ~servedPartial
    /\ readerPc \in {"serve", "unlock"} =>
           /\ indexAccess = "reader"
           /\ \A g \in Writers : writerPc[g] \notin {"create", "write", "unlock"}
    /\ \A g \in Writers :
           writerPc[g] \in {"create", "write", "unlock"} => indexAccess = g

(* Reached: a client has been served the index file, which lists a         *)
(* segment, while a goroutine waits for the mutex to rewrite it.           *)
C18_Witness ==
    /\ readerPc = "unlock"
    /\ indexFile.segments # <<>>
    /\ \E g \in Writers : writerPc[g] = "lock"

(* C19: after every rewrite the playlist lists exactly the records that    *)
(* are usable then, each once and in the order of the list.                *)
C19_PlaylistListsUsable ==
    indexFile.fixed = 2 =>
        LET usableThen == SelectSeq(listAtWrite, LAMBDA f : f.usable)
        IN  /\ Len(indexFile.segments) = Len(usableThen)
            /\ \A k \in 1..Len(usableThen) :
                   indexFile.segments[k].fileName = usableThen[k].fileName

--------------------------------------------------------------------------
(* Properties of the servers                                               *)

(* C21: a transport error does not end the ingest server: after a read    *)
(* error on the UDP socket the UDP server is still in its read loop and    *)
(* receives the datagrams that come later.                                 *)
C21_UdpSurvivesReadError ==
    udpError => udpRunning

(* C24: at most one connection's goroutine is inside handleUrtpStream at   *)
(* any time, and once the goroutine of a newer connection has run          *)
(* handleUrtpStream the goroutine of an older, displaced connection does   *)
(* not run it any more.                                                    *)
C24_SingleTcpWriter ==
    /\ \A c \in 1..Len(conns), o \in 1..Len(conns) :
           (conns[c].pc = "in" /\ conns[o].pc = "in") => c = o
    /\ ~lateHandler


--------------------------------------------------------------------------
(* Properties of the processor's queue and of its tick                     *)

(* The frames an ingest goroutine has got rid of (its send has ended) that *)
(* are not yet processed: the one the receiver holds, those in the list    *)
pendingFrames == Len(cmd) + Len(newDatagramList)

(* C22: the frames accepted and not yet processed never exceed a fixed     *)
(* bound: an ingest goroutine blocks in its send while the processor is    *)
(* behind, so beyond the senders that wait there are no more frames than   *)
(* the channel holds and the one the processor has taken.                  *)
C22_PendingBounded == pendingFrames <= CHANNEL_CAPACITY + 1

(* The place of a datagram in the order of arrival on the channel *)
arrivalIndex(datagram) == CHOOSE i \in 1..Len(arrived) : arrived[i] = datagram

(* C23: frames are processed in their order of arrival on the channel,     *)
(* under every interleaving of the channel receiver and the tick           *)
(* goroutine: each processDatagram call is for a frame that arrived after  *)
(* the frame of the call before it, and the previous frame it is given is  *)
(* the frame of the call before it (none for the first).                   *)
C23_ArrivalOrder ==
    \A i \in 1..Len(procLog) :
        /\ \E k \in 1..Len(arrived) : arrived[k] = procLog[i].datagram
        /\ IF i = 1
           THEN procLog[i].saved = <<>>
           ELSE /\ arrivalIndex(procLog[i - 1].datagram)
                     < arrivalIndex(procLog[i].datagram)
                /\ procLog[i].saved # <<>>
                /\ procLog[i].saved[1] = procLog[i - 1].datagram

(* Three frames have been processed, not in the order of their sequence   *)
(* numbers, and a PushBack has overlapped a Remove on the way.             *)
C23_Witness ==
    /\ Len(procLog) = 3
    /\ ~panicked
    /\ listCorrupt
    /\ procLog[1].datagram.SequenceNumber > procLog[2].datagram.SequenceNumber

(* C26: at the end of the loop over newDatagramList in a tick, none of the *)
(* frames that were pending when the tick began is still pending.          *)
C26_TickDrainsPending == tickPc = "encode" => drainLeft = 0

(* C27: when the tick goroutine is done with the lists in a tick, the      *)
(* processed list holds no more than NUM_PROCESSED_DATAGRAMS frames, and   *)
(* once a frame has been processed it holds the frame processed last.      *)
C27_ProcessedListCapped ==
    tickPc \in { "idle", "encode" } =>
        /\ Len(processedDatagramList) <= NUM_PROCESSED_DATAGRAMS
        /\ procLog # <<>> =>
               processedDatagramList = <<procLog[Len(procLog)].datagram>>

(* A second frame has been processed and moved, and has displaced the      *)
(* first.                                                                  *)
C27_Witness ==
    /\ tickPc = "encode"
    /\ Len(procLog) = 2
    /\ processedDatagramList = <<procLog[2].datagram>>
    /\ newElement = <<>>

--------------------------------------------------------------------------
(* Properties of the reassembler's rejections                              *)

(* The reassembler after n iterations of its byte loop, or fewer when      *)
(* tcpBuffer is empty before                                               *)
RECURSIVE streamAfter(_, _)
streamAfter(st, n) ==
    IF n = 0 \/ st.panic \/ st.tcpBuffer = <<>>
    THEN st
    ELSE streamAfter(streamStep(st), n - 1)

(* The next byte makes the reassembler reject a header field: it is no     *)
(* coding scheme, or it completes a payload length above the maximum       *)
rejectsHeader(st) ==
    /\ ~st.panic
    /\ st.tcpBuffer # <<>>
    /\ \/ /\ st.state = URTP_STATE_WAITING_AUDIO_CODING
          /\ Head(st.tcpBuffer) >= MAX_NUM_AUDIO_CODING_SCHEMES
       \/ /\ st.state = URTP_STATE_WAITING_PAYLOAD_SIZE
          /\ st.byteCount = URTP_PAYLOAD_SIZE_SIZE - 1
          /\ st.payloadSize + Head(st.tcpBuffer) > URTP_DATAGRAM_MAX_SIZE

(* What the claim says of the reassembler nx after the rejection from st *)
rejectedAsClaimed(st, nx) ==
    /\ nx.header = <<>>
    /\ nx.byteCount = 0
    /\ nx.payloadSize = 0
    /\ nx.state = URTP_STATE_WAITING_SYNC
    /\ nx.emitted = st.emitted
    /\ nx.list = st.list
    /\ nx.urtpDatagram = st.urtpDatagram
    /\ nx.tcpBuffer = Tail(st.tcpBuffer)
    /\ ~nx.panic

(* C28: wherever, in the bytes still to be read, the reassembler rejects a *)
(* header field (a coding byte of 2 or more, a payload length above the    *)
(* maximum), the iteration that rejects leaves the header empty, the byte  *)
(* counter and the payload size 0 and the state WAITING_SYNC, hands        *)
(* nothing to handleUrtpDatagram, and has taken the rejected byte out of   *)
(* the buffer, so that the search for a sync byte goes on after it.        *)
C28_HeaderRejection ==
    LET g == [tcpBuffer |-> tcpBuffer \o wire, header |-> <<>>,
              urtpDatagram |-> urtpDatagram,
              state |-> urtpReassemblyState, byteCount |-> urtpByteCount,
              payloadSize |-> urtpPayloadSize, list |-> newDatagramList,
              emitted |-> emitted, panic |-> FALSE]
    IN  \A n \in 0..Len(wire) :
            LET st == streamAfter(g, n)
            IN  rejectsHeader(st) => rejectedAsClaimed(st, streamStep(st))

(* Two sync bytes, then a header whose length bytes are sync bytes, have   *)
(* been read: the second sync byte and the second length byte were         *)
(* rejected, and the reassembler waits for a sync byte.                    *)
C28_Witness ==
    /\ sent = << <<SYNC_BYTE, SYNC_BYTE>>,
                 urtpHeader(PCM_SIGNED_16_BIT_16000_HZ, 6, TsA,
                            SYNC_BYTE * 256 + SYNC_BYTE) >>
    /\ wire = <<>>
    /\ tcpBuffer = <<>>
    /\ urtpReassemblyState = URTP_STATE_WAITING_SYNC
    /\ urtpPayloadSize = 0
    /\ emitted = <<>>

--------------------------------------------------------------------------
(* Properties of the processing of one frame                               *)

(* C29: a frame whose sequence number does not follow that of the previous *)
(* frame is not put in another place: processDatagram calls handleGap with *)
(* the gap (seq - previous seq) mod 2^16 blocks, the fill and the frame's  *)
(* own samples are appended to what pcmAudio holds already, and the frame  *)
(* is the previous frame from then on.                                     *)
C29_FramesNotReordered ==
    [][ ( /\ fed' = fed + 1
          /\ seqMissed(lastProc'[1].datagram, lastProc'[1].saved) ) =>
        LET d == lastProc'[1].datagram
            prev == lastProc'[1].saved[1]
            r == lastProc'[1].r
            gap == (((d.SequenceNumber - prev.SequenceNumber) + Two16)
                      % Two16) * SAMPLES_PER_BLOCK
        IN  /\ r.gap1.called
            /\ r.gap1.n = gap
            /\ pcmAudio' = pcmAudio \o r.gap1.fill
                              \o (IF d.AudioNil THEN <<>>
                                  ELSE audioBytes(d.Audio))
                              \o r.gap2.fill
            /\ processedDatagramList' # <<>>
            /\ processedDatagramList'[1] = d ]_vars

--------------------------------------------------------------------------
(* Properties of the responses of the HTTP server                          *)

(* C25: the response to a request for the index file is sent with          *)
(* Content-Type application/x-mpegurl and Cache-Control no-cache: both are *)
(* in the header that goes out before the body.                            *)
C25_PlaylistHeaders ==
    wireHeader # <<>> =>
        /\ wireHeader[1].ContentType = "application/x-mpegurl"
        /\ wireHeader[1].CacheControl = "no-cache"

--------------------------------------------------------------------------
(* Properties of the content of the segment files                          *)

(* C30: at a rotation the encoder is flushed first and the tag and the     *)
(* whole buffer are written then: a segment file that is written holds the *)
(* data encoded for its segment, the data of the flush that ends the       *)
(* segment when an encoder was closed, and no data of another segment.     *)
C30_RotationOrder ==
    \A k \in 1..Len(segmentLog) :
        segmentLog[k].published =>
            /\ \A data \in segmentLog[k].file : data.seg = k
            /\ segmentLog[k].flushed => flushData(k) \in segmentLog[k].file

--------------------------------------------------------------------------
(* Properties of the UDP read loop                                         *)

(* C39: no datagram that is read stops the read loop of udpServer, of      *)
(* whatever length it is, and the list of new datagrams changes on a read  *)
(* only by the datagram of a packet that has the length of a header at     *)
(* least and passes verifyUrtpHeader.                                      *)
C39_DatagramsKeepLoop ==
    [][ udpCount' = udpCount + 1 =>
          /\ udpRunning'
          /\ newDatagramList' # newDatagramList =>
                 \E d \in UdpInputs :
                     LET line == SubSeq(d, 1, Min(Len(d),
                                                  URTP_DATAGRAM_MAX_SIZE))
                     IN  /\ Len(line) >= URTP_HEADER_SIZE
                         /\ verifyUrtpHeader(SubSeq(line, 1,
                                                    URTP_HEADER_SIZE))
                         /\ newDatagramList' =
                                Append(newDatagramList,
                                       newUrtpDatagram(line,
                                           urtpDecodeAudio(line))) ]_vars

--------------------------------------------------------------------------
(* Properties of the payload length                                        *)

(* A packet handed on for decoding carries as many payload bytes as its    *)
(* header declares, and as PCM gives half as many samples, a block at most *)
postedAsDeclared(packet) ==
    /\ Len(packet) - URTP_HEADER_SIZE = payloadLenField(packet)
    /\ packet[2] = PCM_SIGNED_16_BIT_16000_HZ =>
           /\ Len(urtpDecodeAudio(packet).audio)
                  = payloadLenField(packet) \div URTP_SAMPLE_SIZE
           /\ Len(urtpDecodeAudio(packet).audio) <= SAMPLES_PER_BLOCK

(* C40: for every frame posted to the processor, from the TCP reassembler  *)
(* or from a UDP datagram, the audio is decoded from as many payload bytes *)
(* as the frame's header declares; a PCM frame gives payload_len / 2       *)
(* samples and never more than SAMPLES_PER_BLOCK.                          *)
C40_DecodedAsDeclared ==
    [][ /\ \A i \in (Len(emitted) + 1)..Len(emitted') :
               postedAsDeclared(emitted'[i])
        /\ ( /\ udpCount' = udpCount + 1
             /\ newDatagramList' # newDatagramList ) =>
               \A d \in LengthUdpInputs :
                   ( /\ Len(d) >= URTP_HEADER_SIZE
                     /\ newDatagramList' =
                            Append(newDatagramList,
                                   newUrtpDatagram(d, urtpDecodeAudio(d))) )
                   => postedAsDeclared(d) ]_vars

--------------------------------------------------------------------------
(* Properties of a TCP connection that displaces another                   *)

(* C35: whatever the connection before it has left behind in the           *)
(* reassembler, the first frame a new connection sends, a complete valid   *)
(* frame, is handed to handleUrtpDatagram as it was sent: here once it has *)
(* been read in one piece and handleUrtpStream has returned, with no other *)
(* connection's goroutine still about to call handleUrtpStream.            *)
C35_DisplacingConnectionFrame ==
    \A c \in 2..Len(conns) :
        ( /\ conns[c].first \in ValidTcpFrames \cup ConnInputs
          /\ Len(conns[c].first) >= URTP_HEADER_SIZE
          /\ conns[c].reads = 1
          /\ conns[c].wire = <<>>
          /\ conns[c].pc = "read"
          /\ ~panicked
          /\ \A o \in 1..Len(conns) : conns[o].pc \in {"read", "done"} )
        => \E i \in 1..Len(emitted) : emitted[i] = conns[c].first


--------------------------------------------------------------------------
(* Properties of the processor tick and its neighbours                     *)

(* C31: a tick of the processor waits for nothing but its timer and the    *)
(* encoder: whenever the tick goroutine stands in the send of a finished   *)
(* segment on MediaControlChannel, the publisher's channel goroutine is at *)
(* its receive, so that the send goes through at once, whatever the        *)
(* publisher, the playlist mutex and the clients served are doing.         *)
C31_TickWaitsOnlyForTimer ==
    mediaChannel # <<>> => writerPc["channel"] = "idle"

(* The case of C31 with a client: the tick goroutine stands in the send    *)
(* while the channel goroutine waits for the mutex that streamHandler      *)
(* holds during http.ServeFile.                                            *)
C31_TickBehindClient ==
    /\ mediaChannel # <<>>
    /\ writerPc["channel"] = "lock"
    /\ indexAccess = "reader"
    /\ readerPc = "serve"

(* C32: a segment whose tag or data could not be written is abandoned: it  *)
(* is not announced to the publisher, and what was encoded for it is in    *)
(* the file of no later segment.                                           *)
C32_FailedSegmentAbandoned ==
    \A k \in 1..Len(segmentLog) :
        ~segmentLog[k].published =>
            \A j \in (k + 1)..Len(segmentLog) :
                encodedData(k) \notin segmentLog[j].file

(* C33: no step of the processor or the publisher leaves more file handles *)
(* open than there were: after a rotation at most the new segment file is  *)
(* open, and a rewrite of the index file leaves no handle of it behind.    *)
C33_HandlesReleased ==
    [][ mp3Handles' <= 1 /\ indexHandles' <= indexHandles ]_vars

(* The cases of C33 one by one: a rotation after which two segment files   *)
(* are open, and a rewrite of the index file that has left its handle open *)
C33_SegmentHandleLeft == mp3Handles > 1
C33_IndexHandleLeft == indexHandles > handlesAfterUpdate(0)

(* C34: once the processor's channel is closed the processor ends: from    *)
(* some time on the tick goroutine does no more work (it stays where it    *)
(* waits for the ticker, or the program has ended in a panic).             *)
C34_CloseEndsProcessor ==
    [](channelClosed => <>[](tickPc = "idle" \/ panicked))


(* C36: ingest sends a frame on the processor's channel only when the      *)
(* channel has been made: no goroutine stands in a send on the nil         *)
(* channel, a send that never returns.                                     *)
C36_NoSendBeforeChannel == nilSends = 0


(* How often processDatagram was called for a datagram *)
timesProcessed(datagram) ==
    Cardinality({ i \in 1..Len(procLog) : procLog[i].datagram = datagram })

(* C37: however the receiver and the tick goroutine interleave, a frame    *)
(* the receiver has taken from the channel is processed exactly once: it   *)
(* is never processed twice, and as long as it is not processed it is in   *)
(* the receiver's hand or on newDatagramList (while the program runs).     *)
C37_PendingProcessedOnce ==
    \A k \in 1..Len(arrived) :
        /\ timesProcessed(arrived[k]) <= 1
        /\ (~panicked /\ timesProcessed(arrived[k]) = 0) =>
               \/ cmd = <<arrived[k]>>
               \/ \E i \in 1..Len(newDatagramList) :
                      newDatagramList[i] = arrived[k]

(* What updateIndexFile found usable in the list when goroutine g last     *)
(* entered it is in the index file.                                        *)
listsScanOf(g) ==
    \A k \in 1..Len(writerScan[g].segmentData) :
        \E j \in 1..Len(indexFile.segments) :
            indexFile.segments[j].fileName
                = writerScan[g].segmentData[k].fileName

(* C38: rewrites of the index file do not regress: when a rewrite after a  *)
(* publish and a rewrite of the housekeeping have both returned, in        *)
(* whatever order their steps were taken, the index file lists every       *)
(* usable segment that was on the list when either of them began (the      *)
(* list only grows here, so the one that began later found every segment   *)
(* the other found).                                                       *)
C38_RewritesNeverRegress ==
    (\A g \in Writers : writerPc[g] \in {"idle", "after"})
        => \A g \in Writers : listsScanOf(g)
==========================================================================
